---- MODULE Spec2Model ----
(***************************************************************************)
(* Model of the financial knowledge-graph pipeline: DataCleaner            *)
(* (src/src/clean.py), Neo4jGraphBuilder (src/src/graph_builder.py) and    *)
(* NaturalLanguageQuery (src/src/query_nl.py).                             *)
(*                                                                         *)
(* Python strings that the code inspects character by character (relation *)
(* names, entity names) are sequences of one-character strings, so that    *)
(* strip/lower/upper/title/substring/regex are computed, not assumed.      *)
(* Neo4j labels and relationship types, which the code only compares for   *)
(* equality, are plain strings.                                            *)
(***************************************************************************)
EXTENDS Integers, Sequences, FiniteSets, TLC

(* ------------------------------------------------------------------ *)
(* Characters and the str methods used by clean.py                     *)
(* ------------------------------------------------------------------ *)
LowerChars == <<"a", "b", "c", "d", "e", "f", "g", "h", "i", "j", "k", "l", "m", "n", "o", "p", "q", "r", "s", "t", "u", "v", "w", "x", "y", "z">>

UpperChars == <<"A", "B", "C", "D", "E", "F", "G", "H", "I", "J", "K", "L", "M", "N", "O", "P", "Q", "R", "S", "T", "U", "V", "W", "X", "Y", "Z">>

Digits == {"0", "1", "2", "3", "4", "5", "6", "7", "8", "9"}

\* characters matched by \s and removed by str.strip()
Whitespace == {" ", "\t"}

IsLowerChar(c) == \E i \in 1..26 : LowerChars[i] = c

IsUpperChar(c) == \E i \in 1..26 : UpperChars[i] = c

IsCased(c) == IsLowerChar(c) \/ IsUpperChar(c)

ToLowerChar(c) ==
    IF IsUpperChar(c) THEN LowerChars[CHOOSE i \in 1..26 : UpperChars[i] = c] ELSE c

ToUpperChar(c) ==
    IF IsLowerChar(c) THEN UpperChars[CHOOSE i \in 1..26 : LowerChars[i] = c] ELSE c

\* the value pandas puts in a cell of a string column that has no value
NaNStr == <<"NaN">>

\* str.lower()
Lower(s) == [i \in 1..Len(s) |-> ToLowerChar(s[i])]

\* str.upper()
Upper(s) == [i \in 1..Len(s) |-> ToUpperChar(s[i])]

\* str.strip(chars): drop the leading and trailing characters that are in chars
StripChars(s, chars) ==
    LET keep == {i \in 1..Len(s) : s[i] \notin chars}
    IN  IF keep = {} THEN <<>>
        ELSE LET lo == CHOOSE i \in keep : \A j \in keep : i <= j
                 hi == CHOOSE i \in keep : \A j \in keep : i >= j
             IN  SubSeq(s, lo, hi)

\* str.strip()
Strip(s) == StripChars(s, Whitespace)

\* sub occurs in s at position i
HasAt(s, i, sub) ==
    /\ i >= 1
    /\ i + Len(sub) - 1 <= Len(s)
    /\ SubSeq(s, i, i + Len(sub) - 1) = sub

\* `sub in s` for strings
Contains(s, sub) == \E i \in 1..(Len(s) + 1) : HasAt(s, i, sub)

\* str.isupper(): at least one cased character and no lower-case one
IsUpperStr(s) ==
    /\ \E i \in 1..Len(s) : IsCased(s[i])
    /\ \A i \in 1..Len(s) : ~IsLowerChar(s[i])

\* str.islower(): at least one cased character and no upper-case one
IsLowerStr(s) ==
    /\ \E i \in 1..Len(s) : IsCased(s[i])
    /\ \A i \in 1..Len(s) : ~IsUpperChar(s[i])

\* str.title(): a cased character is upper-cased when the character before it
\* is not cased, and lower-cased otherwise
Title(s) ==
    [i \in 1..Len(s) |->
        IF i > 1 /\ IsCased(s[i - 1]) THEN ToLowerChar(s[i]) ELSE ToUpperChar(s[i])]

\* re.sub(r'\s+', ' ', s): every whitespace run becomes one space
RECURSIVE CollapseWhitespace(_)
CollapseWhitespace(s) ==
    IF s = <<>> THEN <<>>
    ELSE IF Head(s) \in Whitespace
         THEN IF Len(s) > 1 /\ s[2] \in Whitespace
              THEN CollapseWhitespace(Tail(s))
              ELSE <<" ">> \o CollapseWhitespace(Tail(s))
         ELSE <<Head(s)>> \o CollapseWhitespace(Tail(s))

(* ------------------------------------------------------------------ *)
(* String literals                                                     *)
(* ------------------------------------------------------------------ *)
R_ACQUIRED == <<"A", "C", "Q", "U", "I", "R", "E", "D">>
R_INVESTED_IN == <<"I", "N", "V", "E", "S", "T", "E", "D", "_", "I", "N">>
R_LAUNCHED == <<"L", "A", "U", "N", "C", "H", "E", "D">>
R_PARTNERED_WITH == <<"P", "A", "R", "T", "N", "E", "R", "E", "D", "_", "W", "I", "T", "H">>
R_CEO_OF == <<"C", "E", "O", "_", "O", "F">>
R_FOUNDED == <<"F", "O", "U", "N", "D", "E", "D">>
R_UNKNOWN == <<"U", "N", "K", "N", "O", "W", "N">>

(* ------------------------------------------------------------------ *)
(* DataCleaner                                                         *)
(* ------------------------------------------------------------------ *)
\* config['pipeline']['confidence_threshold'], in hundredths
confidence_threshold == 70

\* config['extraction']['relation_types']
valid_relations == {R_ACQUIRED, R_INVESTED_IN, R_LAUNCHED, R_PARTNERED_WITH}

\* the synonym mapping, in the declaration order a dict iterates in
relation_standardization ==
    << << <<"a", "c", "q", "u", "i", "r", "e", "d">>,
        R_ACQUIRED>>,
      << <<"a", "c", "q", "u", "i", "s", "i", "t", "i", "o", "n">>,
        R_ACQUIRED>>,
      << <<"b", "o", "u", "g", "h", "t">>,
        R_ACQUIRED>>,
      << <<"p", "u", "r", "c", "h", "a", "s", "e", "d">>,
        R_ACQUIRED>>,
      << <<"i", "n", "v", "e", "s", "t", "e", "d", " ", "i", "n">>,
        R_INVESTED_IN>>,
      << <<"i", "n", "v", "e", "s", "t", "m", "e", "n", "t", " ", "i", "n">>,
        R_INVESTED_IN>>,
      << <<"f", "u", "n", "d", "e", "d">>,
        R_INVESTED_IN>>,
      << <<"l", "a", "u", "n", "c", "h", "e", "d">>,
        R_LAUNCHED>>,
      << <<"r", "e", "l", "e", "a", "s", "e", "d">>,
        R_LAUNCHED>>,
      << <<"i", "n", "t", "r", "o", "d", "u", "c", "e", "d">>,
        R_LAUNCHED>>,
      << <<"p", "a", "r", "t", "n", "e", "r", "e", "d", " ", "w", "i", "t", "h">>,
        R_PARTNERED_WITH>>,
      << <<"c", "o", "l", "l", "a", "b", "o", "r", "a", "t", "e", "d", " ", "w", "i", "t", "h">>,
        R_PARTNERED_WITH>>,
      << <<"c", "e", "o", " ", "o", "f">>,
        R_CEO_OF>>,
      << <<"c", "h", "i", "e", "f", " ", "e", "x", "e", "c", "u", "t", "i", "v", "e", " ", "o", "f", "f", "i", "c", "e", "r", " ", "o", "f">>,
        R_CEO_OF>>,
      << <<"f", "o", "u", "n", "d", "e", "d">>,
        R_FOUNDED>>,
      << <<"e", "s", "t", "a", "b", "l", "i", "s", "h", "e", "d">>,
        R_FOUNDED>>,
      << <<"c", "r", "e", "a", "t", "e", "d">>,
        R_FOUNDED>> >>

RelationKeys == {relation_standardization[i][1] : i \in 1..Len(relation_standardization)}

\* for key, value in relation_standardization.items(): if key in relation_str
RECURSIVE FirstContainedFrom(_, _)
FirstContainedFrom(relation_str, i) ==
    IF i > Len(relation_standardization) THEN Upper(relation_str)
    ELSE IF Contains(relation_str, relation_standardization[i][1])
         THEN relation_standardization[i][2]
         ELSE FirstContainedFrom(relation_str, i + 1)

\* fault variant of _standardize_relation: the last contained key wins
_standardize_relation_last_key(relation) ==
    IF relation = NaNStr THEN R_UNKNOWN
    ELSE LET relation_str == Lower(Strip(relation))
             inside == {k \in 1..Len(relation_standardization) :
                          Contains(relation_str, relation_standardization[k][1])}
         IN  IF inside = {} THEN Upper(relation_str)
             ELSE relation_standardization[CHOOSE k \in inside : \A m \in inside : m <= k][2]

_standardize_relation(relation) ==
    IF relation = NaNStr THEN R_UNKNOWN
    ELSE LET relation_str == Lower(Strip(relation))
         IN  IF relation_str \in RelationKeys
             THEN LET i == CHOOSE k \in 1..Len(relation_standardization) :
                               relation_standardization[k][1] = relation_str
                  IN  relation_standardization[i][2]
             ELSE FirstContainedFrom(relation_str, 1)

\* fault variant of _clean_entity_name: every name is title-cased
_clean_entity_name_always_title(entity) ==
    IF entity = NaNStr THEN <<>>
    ELSE Title(StripChars(CollapseWhitespace(Strip(entity)), {"\"", "'"}))

\* DataCleaner._clean_entity_name
_clean_entity_name(entity) ==
    IF entity = NaNStr THEN <<>>
    ELSE LET stripped   == Strip(entity)
             collapsed  == CollapseWhitespace(stripped)
             unquoted   == StripChars(collapsed, {"\"", "'"})
         IN  IF IsUpperStr(unquoted) \/ IsLowerStr(unquoted)
             THEN Title(unquoted)
             ELSE unquoted

company_patterns ==
    << <<"I", "n", "c">>,
       <<"C", "o", "r", "p">>,
       <<"L", "t", "d">>,
       <<"L", "L", "C">>,
       <<"C", "o", ".">>,
       <<"C", "o", "m", "p", "a", "n", "y">>,
       <<"G", "r", "o", "u", "p">> >>

\* re.match(r'^[A-Z][a-z]+ [A-Z][a-z]+$', s), for s without a line break
MatchesPersonShape(s) ==
    \E sp \in 1..Len(s) :
        /\ s[sp] = " "
        /\ sp >= 3
        /\ Len(s) - sp >= 2
        /\ IsUpperChar(s[1])
        /\ \A i \in 2..(sp - 1) : IsLowerChar(s[i])
        /\ IsUpperChar(s[sp + 1])
        /\ \A i \in (sp + 2)..Len(s) : IsLowerChar(s[i])

\* re.search(r'\d{4}', s)
MatchesFourDigits(s) ==
    \E i \in 1..(Len(s) - 3) : \A k \in 0..3 : s[i + k] \in Digits

MonthAbbreviations ==
    { <<"J", "a", "n">>,
      <<"F", "e", "b">>,
      <<"M", "a", "r">>,
      <<"A", "p", "r">>,
      <<"M", "a", "y">>,
      <<"J", "u", "n">>,
      <<"J", "u", "l">>,
      <<"A", "u", "g">>,
      <<"S", "e", "p">>,
      <<"O", "c", "t">>,
      <<"N", "o", "v">>,
      <<"D", "e", "c">> }

\* a character matched by \w
IsWordChar(c) == IsCased(c) \/ c \in Digits \/ c = "_"

\* \b between positions i-1 and i of s (i in 1..Len(s)+1)
WordBoundaryAt(s, i) ==
    LET before == i > 1 /\ IsWordChar(s[i - 1])
        after  == i <= Len(s) /\ IsWordChar(s[i])
    IN  before # after

\* re.search(r'\b(Jan|...|Dec)[a-z]* \d{4}\b', s)
MatchesMonthYear(s) ==
    \E i \in 1..Len(s) : \E sp \in (i + 3)..Len(s) :
        /\ WordBoundaryAt(s, i)
        /\ SubSeq(s, i, i + 2) \in MonthAbbreviations
        /\ \A k \in (i + 3)..(sp - 1) : IsLowerChar(s[k])
        /\ s[sp] = " "
        /\ sp + 4 <= Len(s)
        /\ \A k \in 1..4 : s[sp + k] \in Digits
        /\ WordBoundaryAt(s, sp + 5)

date_patterns == <<"four_digits", "month_year">>

MatchesDatePattern(p, s) ==
    IF p = "four_digits" THEN MatchesFourDigits(s) ELSE MatchesMonthYear(s)

CurrencyUnits ==
    { <<"m", "i", "l", "l", "i", "o", "n">>,
      <<"b", "i", "l", "l", "i", "o", "n">>,
      <<"t", "r", "i", "l", "l", "i", "o", "n">> }

\* re.search(r'\$\d+', s, re.IGNORECASE)
MatchesDollarAmount(s) ==
    \E i \in 1..(Len(s) - 1) : s[i] = "$" /\ s[i + 1] \in Digits

\* re.search(r'\d+\s*(million|billion|trillion)', s, re.IGNORECASE)
MatchesAmountUnit(s) ==
    \E i \in 1..Len(s) : \E j \in (i + 1)..Len(s) :
        /\ s[i] \in Digits
        /\ \A k \in (i + 1)..(j - 1) : s[k] \in Whitespace
        /\ \E u \in CurrencyUnits :
              /\ j + Len(u) - 1 <= Len(s)
              /\ Lower(SubSeq(s, j, j + Len(u) - 1)) = u

\* re.search(r'USD', s, re.IGNORECASE) and re.search(r'EUR', s, re.IGNORECASE)
MatchesCurrencyCode(code, s) == Contains(Lower(s), code)

currency_patterns == <<"dollar_amount", "amount_unit", "usd", "eur">>

MatchesCurrencyPattern(p, s) ==
    CASE p = "dollar_amount" -> MatchesDollarAmount(s)
      [] p = "amount_unit"   -> MatchesAmountUnit(s)
      [] p = "usd"           -> MatchesCurrencyCode(<<"u", "s", "d">>, s)
      [] OTHER               -> MatchesCurrencyCode(<<"e", "u", "r">>, s)

IsCompanyName(s) ==
    \E i \in 1..Len(company_patterns) : Contains(s, company_patterns[i])

IsDateName(s) ==
    \E i \in 1..Len(date_patterns) : MatchesDatePattern(date_patterns[i], s)

IsCurrencyName(s) ==
    \E i \in 1..Len(currency_patterns) : MatchesCurrencyPattern(currency_patterns[i], s)

\* fault variant of _infer_entity_type: currency checked before date
_infer_entity_type_currency_first(entity) ==
    IF entity = NaNStr THEN "UNKNOWN"
    ELSE IF IsCompanyName(entity) THEN "COMPANY"
    ELSE IF MatchesPersonShape(entity) THEN "PERSON"
    ELSE IF IsCurrencyName(entity) THEN "CURRENCY"
    ELSE IF IsDateName(entity) THEN "DATE"
    ELSE "ENTITY"

\* DataCleaner._infer_entity_type
_infer_entity_type(entity) ==
    IF entity = NaNStr THEN "UNKNOWN"
    ELSE IF IsCompanyName(entity) THEN "COMPANY"
    ELSE IF MatchesPersonShape(entity) THEN "PERSON"
    ELSE IF IsDateName(entity) THEN "DATE"
    ELSE IF IsCurrencyName(entity) THEN "CURRENCY"
    ELSE "ENTITY"

(* ------------------------------------------------------------------ *)
(* Entity names and relation phrases used as inputs                    *)
(* ------------------------------------------------------------------ *)
N_Apple == <<"A", "p", "p", "l", "e">>

N_DarwinAI == <<"D", "a", "r", "w", "i", "n", "A", "I">>

N_AppleInc == <<"A", "p", "p", "l", "e", " ", "I", "n", "c">>

N_TimCook == <<"T", "i", "m", " ", "C", "o", "o", "k">>

N_100Million == <<"$", "1", "0", "0", " ", "m", "i", "l", "l", "i", "o", "n">>

N_January2024 == <<"J", "a", "n", "u", "a", "r", "y", " ", "2", "0", "2", "4">>

N_MarkGroup == <<"M", "a", "r", "k", " ", "G", "r", "o", "u", "p">>

N_1000Dollars == <<"$", "1", "0", "0", "0">>

N_OpenAI == <<"O", "p", "e", "n", "A", "I">>

N_5Billion == <<"5", " ", "b", "i", "l", "l", "i", "o", "n">>

N_Eur == <<"E", "U", "R">>

N_ModelY == <<"M", "o", "d", "e", "l", " ", "Y">>

N_Jan2024Usd == <<"J", "a", "n", " ", "2", "0", "2", "4", " ", "U", "S", "D">>

N_Tesla == <<"t", "e", "s", "l", "a">>

N_Ibm == <<"I", "B", "M">>

N_Obriens == <<"o", "'", "b", "r", "i", "e", "n", "'", "s">>

N_AppleLower == <<"a", "p", "p", "l", "e">>

N_AppleUpper == <<"A", "P", "P", "L", "E">>

W_has == <<"h", "a", "s", " ">>

W_and == <<" ", "a", "n", "d", " ">>

W_unrelated == <<"u", "n", "r", "e", "l", "a", "t", "e", "d", " ", "t", "o">>

W_owns == <<"o", "w", "n", "s">>

W_acquired == <<"a", "c", "q", "u", "i", "r", "e", "d">>

W_bought == <<"b", "o", "u", "g", "h", "t">>

W_ACQUISITION == <<"A", "C", "Q", "U", "I", "S", "I", "T", "I", "O", "N">>

W_ceo_of == <<"c", "e", "o", " ", "o", "f">>

\* every space of s doubled
RECURSIVE DoubleSpaces(_)
DoubleSpaces(s) ==
    IF s = <<>> THEN <<>>
    ELSE IF Head(s) = " " THEN <<" ", " ">> \o DoubleSpaces(Tail(s))
         ELSE <<Head(s)>> \o DoubleSpaces(Tail(s))

\* the ways a string reaches the cleaner: as is, in another case, padded,
\* quoted, with doubled inner spaces
Variants(s) ==
    { s, Lower(s), Upper(s), Title(s),
      <<" ">> \o s \o <<" ", "\t">>,
      <<"\"">> \o s \o <<"\"">>,
      <<"'">> \o Lower(s) \o <<"'">>,
      DoubleSpaces(s) }

BaseNames ==
    { N_Apple, N_DarwinAI, N_AppleInc, N_TimCook, N_100Million, N_January2024,
      N_MarkGroup, N_1000Dollars, N_OpenAI, N_5Billion, N_Eur, N_ModelY,
      N_Jan2024Usd, N_Tesla, N_Ibm, N_Obriens }

EntityInputs == UNION {Variants(b) : b \in BaseNames} \cup {NaNStr, <<>>}

\* relation phrases: every synonym key and some unknown phrases, in their
\* variants, alone, inside a longer phrase, and two keys in one phrase
RelationInputs ==
    LET cores == RelationKeys \cup {W_unrelated, W_owns}
    IN  UNION {Variants(c) : c \in cores}
        \cup {W_has \o c : c \in cores}
        \cup {a \o W_and \o b : a \in RelationKeys, b \in RelationKeys}
        \cup {W_ACQUISITION, NaNStr, <<>>}

(* ------------------------------------------------------------------ *)
(* DataFrame and clean_triplets                                        *)
(* ------------------------------------------------------------------ *)
\* what pandas stores in a numeric cell that has no value; NaN >= x is false
NaNNum == -1

\* what pandas stores in a cell of a type column that has no value
NaNType == "NaN"

NaNOf(column) ==
    CASE column = "confidence"                  -> NaNNum
      [] column \in {"head_type", "tail_type"}  -> NaNType
      [] OTHER                                  -> NaNStr

\* pd.DataFrame(): no columns, no rows
EmptyDataFrame == [columns |-> {}, rows |-> <<>>]

\* pd.DataFrame(triplets): one column per key that occurs in some dict, one
\* row per dict labelled with its position, NaN where a dict lacks the key
DataFrame(triplets) ==
    LET columns == UNION {DOMAIN triplets[i] : i \in 1..Len(triplets)}
    IN  [columns |-> columns,
         rows |-> [i \in 1..Len(triplets) |->
                     [c \in columns \cup {"index"} |->
                        IF c = "index" THEN i - 1
                        ELSE IF c \in DOMAIN triplets[i] THEN triplets[i][c]
                        ELSE NaNOf(c)]]]

\* the rows at the positions in keep, in their order
RowsAt(rows, keep) ==
    [k \in 1..Cardinality(keep) |->
        rows[CHOOSE i \in keep : Cardinality({j \in keep : j < i}) = k - 1]]

SameTriple(a, b) ==
    a.head = b.head /\ a.relation = b.relation /\ a.tail = b.tail

\* fault variant of drop_duplicates: keep='last'
drop_duplicates_keep_last(rows) ==
    RowsAt(rows, {i \in 1..Len(rows) :
                    ~\E j \in (i + 1)..Len(rows) : SameTriple(rows[j], rows[i])})

\* the (head, relation, tail) of a raw triplet after relation
\* standardization and entity name cleaning
Canonical(t) ==
    <<_clean_entity_name(t.head), _standardize_relation(t.relation),
      _clean_entity_name(t.tail)>>

\* fault variant of drop_duplicates: duplicates are found by the canonical
\* tuple
drop_duplicates_canonical(rows) ==
    RowsAt(rows, {i \in 1..Len(rows) :
                    ~\E j \in 1..(i - 1) : Canonical(rows[j]) = Canonical(rows[i])})

\* df.drop_duplicates(subset=['head', 'relation', 'tail']): keep='first'
drop_duplicates(rows) ==
    RowsAt(rows, {i \in 1..Len(rows) :
                    ~\E j \in 1..(i - 1) : SameTriple(rows[j], rows[i])})

\* fault variant of filter_confidence: > in place of >=
filter_confidence_strict(df) ==
    IF "confidence" \in df.columns
    THEN [df EXCEPT !.rows =
            RowsAt(df.rows, {i \in 1..Len(df.rows) :
                               /\ df.rows[i].confidence # NaNNum
                               /\ df.rows[i].confidence > confidence_threshold})]
    ELSE df

\* df[df['confidence'] >= self.confidence_threshold], when the column exists
filter_confidence(df) ==
    IF "confidence" \in df.columns
    THEN [df EXCEPT !.rows =
            RowsAt(df.rows, {i \in 1..Len(df.rows) :
                               /\ df.rows[i].confidence # NaNNum
                               /\ df.rows[i].confidence >= confidence_threshold})]
    ELSE df

\* steps 3 and 4: standardize the relation, clean both entity names
standardize_rows(rows) ==
    [i \in 1..Len(rows) |->
        [rows[i] EXCEPT !.relation = _standardize_relation(@),
                        !.head = _clean_entity_name(@),
                        !.tail = _clean_entity_name(@)]]

\* fault variant of filter_valid_relations: the whitelist is not applied
keep_all_relations(rows) == rows

\* df[df['relation'].isin(valid_relations)]
filter_valid_relations(rows) ==
    RowsAt(rows, {i \in 1..Len(rows) : rows[i].relation \in valid_relations})

\* fault variant of filter_self_references: self-loops are kept
keep_self_references(rows) == rows

\* df[df['head'] != df['tail']]
filter_self_references(rows) ==
    RowsAt(rows, {i \in 1..Len(rows) : rows[i].head # rows[i].tail})

\* step 7: a type column is added only when the table has no such column
add_entity_types(df) ==
    LET addHead == "head_type" \notin df.columns
        addTail == "tail_type" \notin df.columns
    IN  [columns |-> df.columns \cup {"head_type", "tail_type"},
         rows |-> [i \in 1..Len(df.rows) |->
                     [c \in DOMAIN df.rows[i] \cup {"head_type", "tail_type"} |->
                        IF c = "head_type" /\ addHead
                        THEN _infer_entity_type(df.rows[i].head)
                        ELSE IF c = "tail_type" /\ addTail
                        THEN _infer_entity_type(df.rows[i].tail)
                        ELSE df.rows[i][c]]]]

\* the orders of rows in which confidence never increases
DescendingOrders(rows) ==
    {p \in [1..Len(rows) -> 1..Len(rows)] :
        /\ \A i, j \in 1..Len(rows) : i # j => p[i] # p[j]
        /\ \A i \in 1..(Len(rows) - 1) :
              rows[p[i]].confidence >= rows[p[i + 1]].confidence}

\* fault variant of sort_values: ascending=True
sort_values_ascending(df) ==
    IF "confidence" \in df.columns
    THEN {[df EXCEPT !.rows = [i \in 1..Len(df.rows) |->
                                  df.rows[p[Len(df.rows) + 1 - i]]]] :
            p \in DescendingOrders(df.rows)}
    ELSE {df}

\* df.sort_values('confidence', ascending=False): the default sort kind is
\* quicksort, which fixes no order among rows of equal confidence
sort_values(df) ==
    IF "confidence" \in df.columns
    THEN {[df EXCEPT !.rows = [i \in 1..Len(df.rows) |-> df.rows[p[i]]]] :
            p \in DescendingOrders(df.rows)}
    ELSE {df}

\* fault variant of clean_unsorted: the confidence filter runs before the
\* duplicates are dropped
clean_unsorted_filter_first(triplets) ==
    LET raw       == DataFrame(triplets)
        confident == filter_confidence(raw)
        deduped   == [confident EXCEPT !.rows = drop_duplicates(@)]
        standard  == [deduped EXCEPT !.rows = standardize_rows(@)]
        valid     == [standard EXCEPT !.rows = filter_valid_relations(@)]
        noloops   == [valid EXCEPT !.rows = filter_self_references(@)]
    IN  add_entity_types(noloops)

\* steps 1 to 7 of clean_triplets
clean_unsorted(triplets) ==
    LET raw      == DataFrame(triplets)
        deduped  == [raw EXCEPT !.rows = drop_duplicates(@)]
        confident == filter_confidence(deduped)
        standard == [confident EXCEPT !.rows = standardize_rows(@)]
        valid    == [standard EXCEPT !.rows = filter_valid_relations(@)]
        noloops  == [valid EXCEPT !.rows = filter_self_references(@)]
    IN  add_entity_types(noloops)

\* DataCleaner.clean_triplets: the tables it may return
clean_triplets(triplets) ==
    IF triplets = <<>> THEN {EmptyDataFrame}
    ELSE sort_values(clean_unsorted(triplets))

\* a triplet as the extractor emits it
Triplet(head, relation, tail) == [head |-> head, relation |-> relation, tail |-> tail]

WithConfidence(t, confidence) == t @@ [confidence |-> confidence]

WithTypes(t, head_type, tail_type) == t @@ [head_type |-> head_type, tail_type |-> tail_type]

\* the raw triplets an extraction may yield
TripletPool ==
    { WithConfidence(Triplet(N_Apple, W_acquired, N_DarwinAI), 95),
      WithConfidence(Triplet(N_Apple, W_acquired, N_DarwinAI), 60),
      WithConfidence(Triplet(N_Apple, W_bought, N_DarwinAI), 70),
      WithConfidence(Triplet(N_AppleLower, W_ACQUISITION, N_AppleUpper), 90),
      WithConfidence(Triplet(N_TimCook, W_ceo_of, N_AppleInc), 95),
      Triplet(N_Apple, W_acquired, N_OpenAI),
      WithTypes(WithConfidence(Triplet(N_AppleLower, W_acquired, N_OpenAI), 70),
                "COMPANY", "ENTITY") }

\* most triplets extracted in one behaviour, over all its runs
MaxTriplets == 2

(* ------------------------------------------------------------------ *)
(* Neo4jGraphBuilder                                                   *)
(* ------------------------------------------------------------------ *)
\* the graph database: nodes and relationships in creation order; a
\* relationship names its end nodes by their position in nodes
EmptyGraph == [nodes |-> <<>>, edges |-> <<>>]

\* batch_size in build_graph
batch_size == 100

\* float(row.get('confidence', 0.8)) when the table has no confidence column
default_confidence == 80

\* the nodes MERGE (n:Entity {name: name}) matches
EntityNodes(g, name) ==
    {i \in 1..Len(g.nodes) : "Entity" \in g.nodes[i].labels /\ g.nodes[i].name = name}

\* fault variant of MergeEntity: CREATE in place of MERGE
CreateEntity(g, name) ==
    [g EXCEPT !.nodes = Append(@, [name |-> name, type |-> "null", labels |-> {"Entity"}])]

\* MERGE (n:Entity {name: name}): create the node unless one matches
MergeEntity(g, name) ==
    IF EntityNodes(g, name) # {} THEN g
    ELSE [g EXCEPT !.nodes =
            Append(@, [name |-> name, type |-> "null", labels |-> {"Entity"}])]

\* the relationships MERGE (h)-[r:RELATION {type: relation}]->(t) matches
RelationEdges(g, h, relation, t) ==
    {i \in 1..Len(g.edges) :
        /\ g.edges[i].src = h
        /\ g.edges[i].dst = t
        /\ g.edges[i].reltype = "RELATION"
        /\ g.edges[i].type = relation}

\* fault variant of MergeRelation: CREATE in place of MERGE
CreateRelation(g, h, relation, t, confidence, now) ==
    [g EXCEPT !.edges =
        Append(@, [src |-> h, dst |-> t, reltype |-> "RELATION", type |-> relation,
                   confidence |-> confidence, source |-> "extracted", created |-> now])]

\* fault variant of MergeRelation: a matched relationship keeps the higher
\* confidence
MergeRelationMax(g, h, relation, t, confidence, now) ==
    LET matched == RelationEdges(g, h, relation, t)
    IN  IF matched # {}
        THEN [g EXCEPT !.edges =
                [i \in 1..Len(g.edges) |->
                    IF i \in matched /\ g.edges[i].confidence < confidence
                    THEN [g.edges[i] EXCEPT !.confidence = confidence, !.created = now]
                    ELSE g.edges[i]]]
        ELSE CreateRelation(g, h, relation, t, confidence, now)

\* MERGE of the relationship, then SET of its three properties
MergeRelation(g, h, relation, t, confidence, now) ==
    LET props == [src |-> h, dst |-> t, reltype |-> "RELATION", type |-> relation,
                  confidence |-> confidence, source |-> "extracted", created |-> now]
        matched == RelationEdges(g, h, relation, t)
    IN  IF matched # {}
        THEN [g EXCEPT !.edges =
                [i \in 1..Len(g.edges) |-> IF i \in matched THEN props ELSE g.edges[i]]]
        ELSE [g EXCEPT !.edges = Append(@, props)]

\* the dict _import_batch sends for one row
TripletData(columns, row) ==
    [head |-> row.head,
     tail |-> row.tail,
     relation |-> row.relation,
     head_type |-> IF "head_type" \in columns THEN row.head_type ELSE "ENTITY",
     tail_type |-> IF "tail_type" \in columns THEN row.tail_type ELSE "ENTITY",
     confidence |-> IF "confidence" \in columns THEN row.confidence
                    ELSE default_confidence]

\* fault variant of ImportTriplet: the type replaces the labels a node had
ImportTripletSetLabels(g, triplet, now) ==
    LET g1 == MergeEntity(g, triplet.head)
        h  == CHOOSE i \in EntityNodes(g1, triplet.head) : TRUE
        g2 == [g1 EXCEPT !.nodes[h].type = triplet.head_type,
                         !.nodes[h].labels = {"Entity", triplet.head_type}]
        g3 == MergeEntity(g2, triplet.tail)
        t  == CHOOSE i \in EntityNodes(g3, triplet.tail) : TRUE
        g4 == [g3 EXCEPT !.nodes[t].type = triplet.tail_type,
                         !.nodes[t].labels = {"Entity", triplet.tail_type}]
    IN  MergeRelation(g4, h, triplet.relation, t, triplet.confidence, now)

\* the Cypher statement of _import_batch for one element of $triplets
ImportTriplet(g, triplet, now) ==
    LET g1 == MergeEntity(g, triplet.head)
        h  == CHOOSE i \in EntityNodes(g1, triplet.head) : TRUE
        g2 == [g1 EXCEPT !.nodes[h].type = triplet.head_type]
        g3 == MergeEntity(g2, triplet.tail)
        t  == CHOOSE i \in EntityNodes(g3, triplet.tail) : TRUE
        g4 == [g3 EXCEPT !.nodes[t].type = triplet.tail_type]
        g5 == [g4 EXCEPT !.nodes[h].labels = @ \cup {g4.nodes[h].type}]
        g6 == [g5 EXCEPT !.nodes[t].labels = @ \cup {g5.nodes[t].type}]
    IN  MergeRelation(g6, h, triplet.relation, t, triplet.confidence, now)

\* UNWIND $triplets: the statement for the elements lo..hi, in order; the
\* graph the earlier elements left is read (DOMAIN g) before these start
RECURSIVE ImportTripletsIn(_, _, _, _, _)
ImportTripletsIn(g, triplets_data, lo, hi, now) ==
    IF lo > hi \/ DOMAIN g = {} THEN g
    ELSE IF lo = hi THEN ImportTriplet(g, triplets_data[lo], now)
    ELSE LET mid == (lo + hi) \div 2
             first == ImportTripletsIn(g, triplets_data, lo, mid, now)
         IN  ImportTripletsIn(first, triplets_data, mid + 1, hi, now)

ImportTriplets(g, triplets_data, now) ==
    ImportTripletsIn(g, triplets_data, 1, Len(triplets_data), now)

\* apoc.create.addLabels takes a list of strings: a NaN type makes the
\* statement fail
StatementFails(triplets_data) ==
    \E i \in 1..Len(triplets_data) :
        triplets_data[i].head_type = NaNType \/ triplets_data[i].tail_type = NaNType

\* Neo4jGraphBuilder._import_batch: one statement in one transaction; an
\* exception (a failing statement, or a lost connection when broken) is
\* caught and the graph stays as it was
_import_batch(g, columns, batch, broken, now) ==
    LET triplets_data == [i \in 1..Len(batch) |-> TripletData(columns, batch[i])]
    IN  IF broken \/ StatementFails(triplets_data) THEN g
        ELSE ImportTriplets(g, triplets_data, now)

\* the number of batches range(0, len(df), batch_size) yields
NumBatches(df) == (Len(df.rows) + batch_size - 1) \div batch_size

\* df.iloc[i:i + batch_size] for the k-th batch
Batch(df, k) ==
    SubSeq(df.rows, (k - 1) * batch_size + 1,
           IF k * batch_size < Len(df.rows) THEN k * batch_size ELSE Len(df.rows))

\* the k-th batch of df is not imported: its session breaks or its
\* statement fails
BatchFails(df, k, failed) ==
    \/ k \in failed
    \/ StatementFails([i \in 1..Len(Batch(df, k)) |-> TripletData(df.columns, Batch(df, k)[i])])

\* fault variant of ImportBatchesFrom: the exception of a failed batch leaves
\* the loop
RECURSIVE ImportBatchesAbort(_, _, _, _, _)
ImportBatchesAbort(g, df, k, failed, now) ==
    IF k > NumBatches(df) \/ BatchFails(df, k, failed) THEN g
    ELSE ImportBatchesAbort(_import_batch(g, df.columns, Batch(df, k), FALSE, now),
                            df, k + 1, failed, now)

RECURSIVE ImportBatchesFrom(_, _, _, _, _)
ImportBatchesFrom(g, df, k, failed, now) ==
    IF k > NumBatches(df) THEN g
    ELSE ImportBatchesFrom(_import_batch(g, df.columns, Batch(df, k), k \in failed, now),
                           df, k + 1, failed, now)

\* fault variant of build_graph: the database is cleared on every call
build_graph_replacing(g, df, clear_existing, failed, now) ==
    IF df.rows = <<>> THEN g
    ELSE ImportBatchesFrom(EmptyGraph, df, 1, failed, now)

\* Neo4jGraphBuilder.build_graph; failed is the set of batches whose
\* session breaks
build_graph(g, df, clear_existing, failed, now) ==
    IF df.rows = <<>> THEN g
    ELSE ImportBatchesFrom(IF clear_existing THEN EmptyGraph ELSE g, df, 1, failed, now)

\* the columns the two parts of stats_query return, joined by UNION ALL
stats_columns ==
    << <<"total_nodes", "unique_labels">>,
       <<"total_relationships", "unique_relationship_types">> >>

\* Neo4j refuses a UNION whose parts do not return the same column names
UnionRefused(columns) == columns[1] # columns[2]

\* labels(n)[0]: the label the node was created with
FirstLabel(node) == "Entity"

\* the dict get_graph_stats builds from the two rows of the result
StatsOf(g) ==
    [total_nodes |-> Len(g.nodes),
     unique_labels |-> Cardinality({FirstLabel(g.nodes[i]) : i \in 1..Len(g.nodes)}),
     total_relationships |-> Len(g.edges),
     unique_relationship_types |->
         Cardinality({g.edges[i].reltype : i \in 1..Len(g.edges)})]

NoStats ==
    [total_nodes |-> 0, unique_labels |-> 0, total_relationships |-> 0,
     unique_relationship_types |-> 0]

\* Neo4jGraphBuilder.get_graph_stats: it has no try, so a session that
\* breaks (broken) and a statement the database refuses both raise
get_graph_stats(g, broken) ==
    IF broken \/ UnionRefused(stats_columns)
    THEN [raised |-> TRUE, stats |-> NoStats]
    ELSE [raised |-> FALSE, stats |-> StatsOf(g)]

\* most build_graph calls in one behaviour
MaxBuilds == 2

\* entity names for tables of more than one batch: "Ax", "Bx", ...
BatchNames == [i \in 1..17 |-> <<UpperChars[i], "x">>]

\* the k-th row of such a table: the k-th pair of different names, with a
\* confidence that never increases along the table
BatchRow(k) ==
    LET others == Len(BatchNames) - 1
        h == ((k - 1) \div others) + 1
        r == ((k - 1) % others) + 1
        t == IF r >= h THEN r + 1 ELSE r
    IN  [index |-> k - 1,
         head |-> BatchNames[h], relation |-> R_ACQUIRED, tail |-> BatchNames[t],
         confidence |-> 100 - ((k - 1) \div 10),
         head_type |-> _infer_entity_type(BatchNames[h]),
         tail_type |-> _infer_entity_type(BatchNames[t])]

\* a cleaned table of n rows
BatchTable(n) ==
    [columns |-> {"head", "relation", "tail", "confidence", "head_type", "tail_type"},
     rows |-> [k \in 1..n |-> BatchRow(k)]]

\* the table lengths built: one full batch, one row more, three batches
BatchTables == {BatchTable(n) : n \in {100, 101, 201, 250}}

(* ------------------------------------------------------------------ *)
(* NaturalLanguageQuery                                                *)
(* ------------------------------------------------------------------ *)
\* A Cypher query is kept by its structure. A path query
\*   MATCH (a:src_label {name: src_name})-[r:reltype]->(b:dst_label {name: dst_name})
\* has "" for a label it does not ask for and NoName for a name it does not
\* ask for; reltype is the relationship type proper, not a property. Its
\* fields are <<column, value>> pairs, the value one of a.name, b.name and
\* r.confidence. Returned rows are kept as a set, without their order.
NoName == <<"*">>

PathQuery(src_label, src_name, reltype, dst_label, dst_name, fields, limit) ==
    [kind |-> "path", src_label |-> src_label, src_name |-> src_name,
     reltype |-> reltype, dst_label |-> dst_label, dst_name |-> dst_name,
     fields |-> fields, limit |-> limit]

\* LIMIT 10 of the templates and of the default query
query_limit == 10

\* no LIMIT clause
NoLimit == -1

\* self.query_templates, in declaration order: <<phrase, query>>
query_templates ==
    << << <<"c", "o", "m", "p", "a", "n", "y", " ", "a", "c", "q", "u", "i", "s", "i", "t", "i", "o", "n", "s">>,
          PathQuery("Company", NoName, "ACQUIRED", "", NoName,
                    << <<"acquirer", "a.name">>, <<"acquired_company", "b.name">>,
                       <<"confidence", "r.confidence">> >>, query_limit) >>,
       << <<"c", "o", "m", "p", "a", "n", "y", " ", "i", "n", "v", "e", "s", "t", "m", "e", "n", "t", "s">>,
          PathQuery("Company", NoName, "INVESTED_IN", "", NoName,
                    << <<"investor", "a.name">>, <<"investment", "b.name">>,
                       <<"confidence", "r.confidence">> >>, query_limit) >>,
       << <<"p", "e", "r", "s", "o", "n", " ", "c", "o", "m", "p", "a", "n", "i", "e", "s">>,
          PathQuery("Person", NoName, "CEO_OF", "Company", NoName,
                    << <<"person", "a.name">>, <<"company", "b.name">>,
                       <<"confidence", "r.confidence">> >>, query_limit) >>,
       << <<"p", "r", "o", "d", "u", "c", "t", " ", "l", "a", "u", "n", "c", "h", "e", "s">>,
          PathQuery("Company", NoName, "LAUNCHED", "Product", NoName,
                    << <<"company", "a.name">>, <<"product", "b.name">>,
                       <<"confidence", "r.confidence">> >>, query_limit) >> >>

\* the default query of _rule_based_conversion: it reads the parameter $term
DefaultQuery == [kind |-> "default", limit |-> query_limit]

\* what _llm_to_cypher returns when the call fails
None == [kind |-> "None"]

\* what _llm_to_cypher returns when the reply holds nothing but code fences
EmptyText == [kind |-> "empty"]

\* a query _llm_to_cypher may return: MATCH (n)-[r:RELATION]->(m) RETURN ...
LlmGenerated ==
    PathQuery("", NoName, "RELATION", "", NoName,
              << <<"source", "a.name">>, <<"target", "b.name">> >>, NoLimit)

\* the results of _llm_to_cypher
LlmResults == {None, EmptyText, LlmGenerated}

\* the rules of _rule_based_conversion, in order: the text before the
\* captured group (.+?), the text after it, and the query for the captured,
\* title-cased name
rule_patterns ==
    << [prefix |-> <<"w", "h", "a", "t", " ", "c", "o", "m", "p", "a", "n", "i", "e", "s", " ", "d", "i", "d", " ">>,
        suffix |-> <<" ", "a", "c", "q", "u", "i", "r", "e">>],
       [prefix |-> <<"w", "h", "o", " ", "i", "n", "v", "e", "s", "t", "e", "d", " ", "i", "n", " ">>,
        suffix |-> <<>>],
       [prefix |-> <<"w", "h", "a", "t", " ", "p", "r", "o", "d", "u", "c", "t", "s", " ", "d", "i", "d", " ">>,
        suffix |-> <<" ", "l", "a", "u", "n", "c", "h">>],
       [prefix |-> <<"w", "h", "o", " ", "i", "s", " ", "t", "h", "e", " ", "c", "e", "o", " ", "o", "f", " ">>,
        suffix |-> <<>>],
       [prefix |-> <<"w", "h", "a", "t", " ", "c", "o", "m", "p", "a", "n", "i", "e", "s", " ", "p", "a", "r", "t", "n", "e", "r", "e", "d", " ", "w", "i", "t", "h", " ">>,
        suffix |-> <<>>] >>

RuleQuery(k, company) ==
    CASE k = 1 -> PathQuery("Company", company, "ACQUIRED", "", NoName,
                            << <<"target.name", "b.name">> >>, NoLimit)
      [] k = 2 -> PathQuery("", NoName, "INVESTED_IN", "Company", company,
                            << <<"investor.name", "a.name">> >>, NoLimit)
      [] k = 3 -> PathQuery("Company", company, "LAUNCHED", "Product", NoName,
                            << <<"p.name", "b.name">> >>, NoLimit)
      [] k = 4 -> PathQuery("Person", NoName, "CEO_OF", "Company", company,
                            << <<"p.name", "a.name">> >>, NoLimit)
      [] OTHER -> PathQuery("Company", NoName, "PARTNERED_WITH", "Company", company,
                            << <<"c.name", "a.name">> >>, NoLimit)

\* the starts at which re.search can match prefix (.+?) suffix in s: the
\* prefix is there and the suffix follows after at least one character
RuleStarts(s, rule) ==
    {i \in 1..Len(s) :
        /\ HasAt(s, i, rule.prefix)
        /\ \E j \in (i + Len(rule.prefix) + 1)..(Len(s) + 1) : HasAt(s, j, rule.suffix)}

\* match.group(1): the leftmost match, with the shortest group
RuleGroup(s, rule) ==
    LET i == CHOOSE a \in RuleStarts(s, rule) : \A b \in RuleStarts(s, rule) : a <= b
        from == i + Len(rule.prefix)
        ends == {j \in (from + 1)..(Len(s) + 1) : HasAt(s, j, rule.suffix)}
        j == CHOOSE a \in ends : \A b \in ends : a <= b
    IN  SubSeq(s, from, j - 1)

RECURSIVE RuleBasedFrom(_, _)
RuleBasedFrom(question_lower, k) ==
    IF k > Len(rule_patterns) THEN DefaultQuery
    ELSE IF RuleStarts(question_lower, rule_patterns[k]) # {}
         THEN RuleQuery(k, Title(Strip(RuleGroup(question_lower, rule_patterns[k]))))
         ELSE RuleBasedFrom(question_lower, k + 1)

\* NaturalLanguageQuery._rule_based_conversion
_rule_based_conversion(question) == RuleBasedFrom(Lower(question), 1)

RECURSIVE TemplateFrom(_, _)
TemplateFrom(question_lower, k) ==
    IF k > Len(query_templates) THEN None
    ELSE IF Contains(question_lower, query_templates[k][1]) THEN query_templates[k][2]
         ELSE TemplateFrom(question_lower, k + 1)

\* fault variant of query_to_cypher: the rule patterns are tried before the
\* templates
query_to_cypher_rules_first(question, llm_enabled, llm_result) ==
    LET question_lower == Strip(Lower(question))
        template == TemplateFrom(question_lower, 1)
        rule == _rule_based_conversion(question)
    IN  IF rule # DefaultQuery THEN rule
        ELSE IF template # None THEN template
        ELSE IF llm_enabled THEN llm_result
        ELSE rule

\* NaturalLanguageQuery.query_to_cypher; llm_enabled is use_llm and
\* config['llm']['mode'] == 'api', llm_result is what _llm_to_cypher returns
query_to_cypher(question, llm_enabled, llm_result) ==
    LET question_lower == Strip(Lower(question))
        template == TemplateFrom(question_lower, 1)
    IN  IF template # None THEN template
        ELSE IF llm_enabled THEN llm_result
        ELSE _rule_based_conversion(question)

\* the relationships a path query matches
PathMatches(g, q) ==
    {i \in 1..Len(g.edges) :
        LET e == g.edges[i]
            a == g.nodes[e.src]
            b == g.nodes[e.dst]
        IN  /\ e.reltype = q.reltype
            /\ q.src_label # "" => q.src_label \in a.labels
            /\ q.src_name # NoName => a.name = q.src_name
            /\ q.dst_label # "" => q.dst_label \in b.labels
            /\ q.dst_name # NoName => b.name = q.dst_name}

\* one returned row: the query's fields, in order, with their values
PathRow(g, q, i) ==
    LET e == g.edges[i]
        cell(v) ==
            CASE v = "a.name" -> g.nodes[e.src].name
              [] v = "b.name" -> g.nodes[e.dst].name
              [] OTHER        -> e.confidence
    IN  [k \in 1..Len(q.fields) |-> <<q.fields[k][1], cell(q.fields[k][2])>>]

\* a name put between single quotes ends the literal early when it holds a
\* quote: the statement does not parse
Malformed(q) ==
    \/ q.src_name # NoName /\ Contains(q.src_name, <<"'">>)
    \/ q.dst_name # NoName /\ Contains(q.dst_name, <<"'">>)

\* the row sets a LIMIT may leave
Limited(rows, limit) ==
    IF limit = NoLimit \/ Cardinality(rows) <= limit THEN {rows}
    ELSE {r \in SUBSET rows : Cardinality(r) = limit}

\* the outcome of a call: the list it returned, or the exception it let out
Returned(rows) == [raised |-> FALSE, rows |-> rows]

ExceptionRaised == [raised |-> TRUE, rows |-> {}]

\* session.run raises: the session is broken, the statement does not parse,
\* or it names a parameter that is not passed (the default query names
\* $term and execute_query is called with params = {})
RunFails(q, broken) ==
    \/ broken
    \/ q.kind = "default"
    \/ q.kind # "path"
    \/ Malformed(q)

\* fault variant of execute_query: no try/except around the session
execute_query_uncaught(g, q, broken) ==
    IF RunFails(q, broken) THEN {ExceptionRaised}
    ELSE {Returned(rows) : rows \in Limited({PathRow(g, q, i) : i \in PathMatches(g, q)}, q.limit)}

\* NaturalLanguageQuery.execute_query(cypher_query) with params = {}: the
\* outcomes it may have; every exception ends in the empty list
execute_query(g, q, broken) ==
    IF RunFails(q, broken) THEN {Returned({})}
    ELSE {Returned(rows) : rows \in Limited({PathRow(g, q, i) : i \in PathMatches(g, q)}, q.limit)}

\* NaturalLanguageQuery.ask_question: `if not cypher` holds for None and ''
ask_question(g, question, broken) ==
    LET cypher == query_to_cypher(question, FALSE, None)
    IN  IF cypher \in {None, EmptyText} THEN {Returned({})}
        ELSE execute_query(g, cypher, broken)

Q_ListAcquisitions == <<" ", "L", "i", "s", "t", " ", "C", "o", "m", "p", "a", "n", "y", " ", "A", "c", "q", "u", "i", "s", "i", "t", "i", "o", "n", "s", ",", " ", "p", "l", "e", "a", "s", "e", " ">>

Q_AppleAcquire == <<"W", "h", "a", "t", " ", "c", "o", "m", "p", "a", "n", "i", "e", "s", " ", "d", "i", "d", " ", "A", "p", "p", "l", "e", " ", "a", "c", "q", "u", "i", "r", "e", "?">>

Q_Apple == <<"A", "p", "p", "l", "e">>

Q_CompanyAcquisitions == <<"c", "o", "m", "p", "a", "n", "y", " ", "a", "c", "q", "u", "i", "s", "i", "t", "i", "o", "n", "s">>

Q_CompanyInvestments == <<"S", "h", "o", "w", " ", "C", "O", "M", "P", "A", "N", "Y", " ", "I", "N", "V", "E", "S", "T", "M", "E", "N", "T", "S">>

Q_PersonCompanies == <<"p", "e", "r", "s", "o", "n", " ", "c", "o", "m", "p", "a", "n", "i", "e", "s">>

Q_ProductLaunches == <<"\t", "p", "r", "o", "d", "u", "c", "t", " ", "l", "a", "u", "n", "c", "h", "e", "s", " ">>

Q_AcquireAndTemplate == <<"W", "h", "a", "t", " ", "c", "o", "m", "p", "a", "n", "i", "e", "s", " ", "d", "i", "d", " ", "A", "p", "p", "l", "e", " ", "a", "c", "q", "u", "i", "r", "e", "?", " ", "L", "i", "s", "t", " ", "c", "o", "m", "p", "a", "n", "y", " ", "a", "c", "q", "u", "i", "s", "i", "t", "i", "o", "n", "s">>

Q_TwoTemplates == <<"p", "r", "o", "d", "u", "c", "t", " ", "l", "a", "u", "n", "c", "h", "e", "s", " ", "a", "n", "d", " ", "c", "o", "m", "p", "a", "n", "y", " ", "a", "c", "q", "u", "i", "s", "i", "t", "i", "o", "n", "s">>

Q_InvestedOpenAI == <<"W", "h", "o", " ", "i", "n", "v", "e", "s", "t", "e", "d", " ", "i", "n", " ", "O", "p", "e", "n", "A", "I", "?">>

Q_InvestedOpenaiLower == <<"w", "h", "o", " ", "i", "n", "v", "e", "s", "t", "e", "d", " ", "i", "n", " ", "o", "p", "e", "n", "a", "i">>

Q_AppleAcquireLower == <<"w", "h", "a", "t", " ", "c", "o", "m", "p", "a", "n", "i", "e", "s", " ", "d", "i", "d", " ", "a", "p", "p", "l", "e", " ", "a", "c", "q", "u", "i", "r", "e">>

Q_TeslaLaunch == <<"W", "h", "a", "t", " ", "p", "r", "o", "d", "u", "c", "t", "s", " ", "d", "i", "d", " ", "T", "e", "s", "l", "a", " ", "l", "a", "u", "n", "c", "h", "?">>

Q_CeoOfObriens == <<"W", "h", "o", " ", "i", "s", " ", "t", "h", "e", " ", "C", "E", "O", " ", "o", "f", " ", "O", "'", "B", "r", "i", "e", "n", "'", "s">>

Q_ObriensAcquire == <<"W", "h", "a", "t", " ", "c", "o", "m", "p", "a", "n", "i", "e", "s", " ", "d", "i", "d", " ", "O", "'", "B", "r", "i", "e", "n", "'", "s", " ", "a", "c", "q", "u", "i", "r", "e", "?">>

Q_PartneredIbm == <<"w", "h", "a", "t", " ", "c", "o", "m", "p", "a", "n", "i", "e", "s", " ", "p", "a", "r", "t", "n", "e", "r", "e", "d", " ", "w", "i", "t", "h", " ", "I", "B", "M">>

Q_AcquireAndInvested == <<"W", "h", "o", " ", "i", "n", "v", "e", "s", "t", "e", "d", " ", "i", "n", " ", "w", "h", "a", "t", " ", "c", "o", "m", "p", "a", "n", "i", "e", "s", " ", "d", "i", "d", " ", "A", "p", "p", "l", "e", " ", "a", "c", "q", "u", "i", "r", "e">>

Q_Acquisition == <<"c", "o", "m", "p", "a", "n", "y", " ", "a", "c", "q", "u", "i", "s", "i", "t", "i", "o", "n">>

Q_Empty == <<>>

\* sample_questions of run_pipeline
sample_questions ==
    << <<"W", "h", "a", "t", " ", "c", "o", "m", "p", "a", "n", "i", "e", "s", " ", "w", "e", "r", "e", " ", "a", "c", "q", "u", "i", "r", "e", "d", "?">>,
       <<"W", "h", "o", " ", "i", "n", "v", "e", "s", "t", "e", "d", " ", "i", "n", " ", "A", "I", " ", "c", "o", "m", "p", "a", "n", "i", "e", "s", "?">>,
       <<"W", "h", "a", "t", " ", "p", "r", "o", "d", "u", "c", "t", "s", " ", "w", "e", "r", "e", " ", "l", "a", "u", "n", "c", "h", "e", "d", " ", "r", "e", "c", "e", "n", "t", "l", "y", "?">> >>

\* the questions put to the query engine
Questions ==
    { Q_ListAcquisitions, Q_AppleAcquire, Q_Apple, Q_ObriensAcquire }

\* the questions query_to_cypher is called with
QueryInputs ==
    { Q_ListAcquisitions,
      Q_AppleAcquire,
      Q_Apple,
      Q_CompanyAcquisitions,
      Q_CompanyInvestments,
      Q_PersonCompanies,
      Q_ProductLaunches,
      Q_AcquireAndTemplate,
      Q_TwoTemplates,
      Q_InvestedOpenAI,
      Q_InvestedOpenaiLower,
      Q_AppleAcquireLower,
      Q_TeslaLaunch,
      Q_CeoOfObriens,
      Q_ObriensAcquire,
      Q_PartneredIbm,
      Q_AcquireAndInvested,
      Q_Acquisition,
      Q_Empty }

(* ------------------------------------------------------------------ *)
(* LLMExtractor                                                        *)
(* ------------------------------------------------------------------ *)
DigitChars == <<"0", "1", "2", "3", "4", "5", "6", "7", "8", "9">>

\* JSON values of a record's field, as json.loads returns them; numbers are
\* kept in hundredths, as the confidences of the tables are
JsonNumber(n) == [kind |-> "number", value |-> n, text |-> <<>>]

JsonString(s) == [kind |-> "string", value |-> 0, text |-> s]

JsonNull == [kind |-> "null", value |-> 0, text |-> <<>>]

\* the strings float() reads, among those of the responses: d.dd
IsFloatLiteral(s) ==
    /\ Len(s) = 4
    /\ s[1] \in Digits
    /\ s[2] = "."
    /\ s[3] \in Digits
    /\ s[4] \in Digits

DigitValue(c) == (CHOOSE d \in 1..10 : DigitChars[d] = c) - 1

\* float(v): a number is itself, a string is read, and anything else raises
\* (ValueError for a string that is no number, TypeError for None)
float(v) ==
    IF v.kind = "number" THEN [raised |-> FALSE, value |-> v.value]
    ELSE IF v.kind = "string" /\ IsFloatLiteral(v.text)
    THEN [raised |-> FALSE,
          value |-> 100 * DigitValue(v.text[1]) + 10 * DigitValue(v.text[3])
                    + DigitValue(v.text[4])]
    ELSE [raised |-> TRUE, value |-> 0]

\* triplet['confidence'] = 0.8 when the record has none
added_confidence == 80

\* what a call of the extractor gives: the list it returns, or the
\* exception that leaves it
Returns(triplets) == [raised |-> FALSE, triplets |-> triplets]

Raises == [raised |-> TRUE, triplets |-> <<>>]

\* the loop of _parse_response over json.loads(json_str), from record i on
RECURSIVE ValidateFrom(_, _, _)
ValidateFrom(triplets, i, validated) ==
    IF i > Len(triplets) THEN Returns(validated)
    ELSE LET triplet == triplets[i]
         IN  IF {"head", "relation", "tail"} \subseteq DOMAIN triplet
             THEN LET confidence == IF "confidence" \in DOMAIN triplet
                                    THEN triplet.confidence
                                    ELSE JsonNumber(added_confidence)
                      converted  == float(confidence)
                  IN  IF converted.raised THEN Raises
                      ELSE ValidateFrom(triplets, i + 1,
                              Append(validated,
                                     [k \in DOMAIN triplet \cup {"confidence"} |->
                                         IF k = "confidence" THEN converted.value
                                         ELSE triplet[k]]))
             ELSE ValidateFrom(triplets, i + 1, validated)

\* LLMExtractor._parse_response; the response holds no JSON array
\* ("no_array"), an array json.loads refuses ("bad_json"), or an array of
\* records ("array"); only json.JSONDecodeError is caught
_parse_response(response) ==
    IF response.kind = "no_array" THEN Returns(<<>>)
    ELSE IF response.kind = "bad_json" THEN Returns(<<>>)
    ELSE ValidateFrom(response.records, 1, <<>>)

\* LLMExtractor._extract_local: no try; generation_fails: the model raises
_extract_local(response, generation_fails) ==
    IF generation_fails THEN Raises
    ELSE _parse_response(response)

\* LLMExtractor._extract_api: every exception is caught and gives []
_extract_api(response, generation_fails) ==
    IF generation_fails THEN Returns(<<>>)
    ELSE LET parsed == _parse_response(response)
         IN  IF parsed.raised THEN Returns(<<>>) ELSE parsed

\* LLMExtractor.extract_from_text, for the response the model gives to the text
extract_from_text(mode, response, generation_fails) ==
    IF mode = "local" THEN _extract_local(response, generation_fails)
    ELSE _extract_api(response, generation_fails)

N_high == <<"h", "i", "g", "h">>

N_0_70 == <<"0", ".", "7", "0">>

\* the records a response may hold: complete ones, with and without a
\* confidence, one without a tail, one without a head, and ones whose
\* confidence is a string or null
RecordPool ==
    { [head |-> N_Apple, relation |-> W_acquired, tail |-> N_DarwinAI,
       confidence |-> JsonNumber(95)],
      [head |-> N_Apple, relation |-> W_acquired, tail |-> N_OpenAI],
      [head |-> N_Apple, relation |-> W_bought, confidence |-> JsonNumber(90)],
      [relation |-> W_acquired, tail |-> N_OpenAI, confidence |-> JsonString(N_high)],
      [head |-> N_TimCook, relation |-> W_ceo_of, tail |-> N_AppleInc,
       confidence |-> JsonString(N_0_70)],
      [head |-> N_Apple, relation |-> W_acquired, tail |-> N_OpenAI,
       confidence |-> JsonString(N_high)],
      [head |-> N_Apple, relation |-> W_bought, tail |-> N_DarwinAI,
       confidence |-> JsonNull] }

\* most records in one response
MaxRecords == 2

RECURSIVE RecordLists(_)
RecordLists(n) ==
    IF n = 0 THEN {<<>>}
    ELSE RecordLists(n - 1)
         \cup {Append(l, r) : l \in {x \in RecordLists(n - 1) : Len(x) = n - 1},
                              r \in RecordPool}

Responses ==
    {[kind |-> "no_array", records |-> <<>>], [kind |-> "bad_json", records |-> <<>>]}
    \cup {[kind |-> "array", records |-> l] : l \in RecordLists(MaxRecords)}

\* extract_from_text is not under test
NoExtraction ==
    [mode |-> "local", response |-> [kind |-> "no_array", records |-> <<>>],
     generation_fails |-> FALSE]

(* ------------------------------------------------------------------ *)
(* State                                                               *)
(* ------------------------------------------------------------------ *)
VARIABLES
    relation_arg,     \* the argument given to _standardize_relation
    relation_calls,   \* its completed call: <<>> or <<[relation, result]>>
    entity_arg,       \* the argument given to the entity-name functions
    entity_calls,     \* completed call of _clean_entity_name: <<[entity, result]>>
    type_calls,       \* completed call of _infer_entity_type: <<[entity, result]>>
    all_triplets,     \* the raw triplets collected so far (list of dicts)
    cleaned_df,       \* the table clean_triplets returned
    stage,            \* how far the current run has come
    graph,            \* the content of the graph database
    now,              \* the database clock: build_graph calls so far
    answers,          \* the last ask_question call: <<>> or <<[question, broken, rows]>>
    extracted,        \* the number of triplets extracted so far, over all runs
    query_arg,        \* the arguments given to query_to_cypher
    query_calls,      \* its completed call: <<>> or <<[arg, result]>>
    run,              \* the run_pipeline call under way: its stages and result
    build_failed,     \* the batches whose session broke in the last build_graph call
    imports,          \* complete imports of cleaned_df the graph holds: build_graph
                      \* calls with no failed batch since the graph was last cleared
    extract_arg,      \* the mode of the extractor and the response of its model
    extract_calls,    \* completed call of extract_from_text: <<>> or <<[arg, result]>>
    stats             \* the last get_graph_stats call: <<>> or <<[broken, raised, stats]>>

vars == <<relation_arg, relation_calls, entity_arg, entity_calls, type_calls,
          query_arg, query_calls, run,
          all_triplets, cleaned_df, stage, graph, now, answers, extracted,
          build_failed, imports, extract_arg, extract_calls, stats>>

extractVars == <<extract_arg, extract_calls>>

fnVars == <<relation_arg, relation_calls, entity_arg, entity_calls, type_calls,
            query_arg, query_calls, extractVars>>

pipelineVars == <<run, all_triplets, cleaned_df, stage, graph, now, answers, extracted,
                  build_failed, imports, stats>>

\* no run_pipeline call is under way: the sentences preprocessing gave,
\* those not yet extracted, the steps started and the value returned
NoPipeline == [sentences |-> 0, left |-> 0, started |-> <<>>, result |-> "none"]

NoRun ==
    /\ all_triplets = <<>>
    /\ cleaned_df = EmptyDataFrame
    /\ stage = "extract"
    /\ graph = EmptyGraph
    /\ now = 0
    /\ answers = <<>>
    /\ extracted = 0
    /\ build_failed = {}
    /\ imports = 0
    /\ stats = <<>>
    /\ run = NoPipeline

\* query_to_cypher is not under test
NoQuestion == [question |-> <<>>, use_llm |-> FALSE, mode |-> "local", llm_result |-> None]

NoCalls ==
    /\ query_calls = <<>>
    /\ relation_calls = <<>>
    /\ entity_calls = <<>>
    /\ type_calls = <<>>
    /\ extract_calls = <<>>

StandardizeRelation ==
    /\ relation_calls = <<>>
    /\ relation_calls' =
           <<[relation |-> relation_arg, result |-> _standardize_relation(relation_arg)]>>
    /\ UNCHANGED <<relation_arg, entity_arg, entity_calls, type_calls,
                   query_arg, query_calls, pipelineVars, extractVars>>

CleanEntityName ==
    /\ entity_calls = <<>>
    /\ entity_calls' =
           <<[entity |-> entity_arg, result |-> _clean_entity_name(entity_arg)]>>
    /\ UNCHANGED <<relation_arg, relation_calls, entity_arg, type_calls,
                   query_arg, query_calls, pipelineVars, extractVars>>

InferEntityType ==
    /\ type_calls = <<>>
    /\ type_calls' =
           <<[entity |-> entity_arg, result |-> _infer_entity_type(entity_arg)]>>
    /\ UNCHANGED <<relation_arg, relation_calls, entity_arg, entity_calls,
                   query_arg, query_calls, pipelineVars, extractVars>>

\* query_to_cypher(question, use_llm) under config['llm']['mode'] = mode
QueryToCypher ==
    /\ query_calls = <<>>
    /\ query_calls' =
           <<[arg |-> query_arg,
              result |-> query_to_cypher(query_arg.question,
                                         query_arg.use_llm /\ query_arg.mode = "api",
                                         query_arg.llm_result)]>>
    /\ UNCHANGED <<relation_arg, relation_calls, entity_arg, entity_calls, type_calls,
                   query_arg, pipelineVars, extractVars>>

\* _standardize_relation on every relation phrase
InitRelation ==
    /\ relation_arg \in RelationInputs
    /\ entity_arg = <<>>
    /\ query_arg = NoQuestion
    /\ extract_arg = NoExtraction
    /\ NoCalls
    /\ NoRun

NextRelation == StandardizeRelation

SpecRelation == InitRelation /\ [][NextRelation]_vars

\* _clean_entity_name and _infer_entity_type on every entity name
InitEntity ==
    /\ relation_arg = <<>>
    /\ entity_arg \in EntityInputs
    /\ query_arg = NoQuestion
    /\ extract_arg = NoExtraction
    /\ NoCalls
    /\ NoRun

NextEntity ==
    \/ CleanEntityName
    \/ InferEntityType

SpecEntity == InitEntity /\ [][NextEntity]_vars

\* query_to_cypher on every question, with the external translation on and
\* off and each of its results
InitQuery ==
    /\ relation_arg = <<>>
    /\ entity_arg = <<>>
    /\ query_arg \in [question : QueryInputs, use_llm : BOOLEAN, mode : {"api", "local"},
                       llm_result : LlmResults]
    /\ extract_arg = NoExtraction
    /\ NoCalls
    /\ NoRun

NextQuery == QueryToCypher

SpecQuery == InitQuery /\ [][NextQuery]_vars

\* extract_from_text(sentence) under config['llm']['mode'] = mode
ExtractFromResponse ==
    /\ extract_calls = <<>>
    /\ extract_calls' =
           <<[arg |-> extract_arg,
              result |-> extract_from_text(extract_arg.mode, extract_arg.response,
                                           extract_arg.generation_fails)]>>
    /\ UNCHANGED <<relation_arg, relation_calls, entity_arg, entity_calls, type_calls,
                   query_arg, query_calls, extract_arg, pipelineVars>>

\* extract_from_text in both modes, on every response
InitExtract ==
    /\ relation_arg = <<>>
    /\ entity_arg = <<>>
    /\ query_arg = NoQuestion
    /\ extract_arg \in [mode : {"local", "api"}, response : Responses,
                         generation_fails : BOOLEAN]
    /\ NoCalls
    /\ NoRun

NextExtract == ExtractFromResponse

SpecExtract == InitExtract /\ [][NextExtract]_vars

(* ------------------------------------------------------------------ *)
(* The pipeline's operations                                           *)
(* ------------------------------------------------------------------ *)
\* all_triplets.extend(triplets) for one extracted triplet
ExtractFromText(t) ==
    /\ stage = "extract"
    /\ extracted < MaxTriplets
    /\ all_triplets' = Append(all_triplets, t)
    /\ extracted' = extracted + 1
    /\ UNCHANGED <<cleaned_df, stage, graph, now, answers, build_failed, imports, run, stats, fnVars>>

\* cleaned_df = self.cleaner.clean_triplets(all_triplets)
CleanTriplets ==
    /\ stage = "extract"
    /\ cleaned_df' \in clean_triplets(all_triplets)
    /\ stage' = "cleaned"
    /\ UNCHANGED <<all_triplets, graph, now, answers, extracted, build_failed, imports, run, stats, fnVars>>

\* self.graph_builder.build_graph(cleaned_df, clear_existing)
BuildGraph(clear_existing, failed) ==
    /\ stage \in {"cleaned", "built"}
    /\ now < MaxBuilds
    /\ graph' = build_graph(graph, cleaned_df, clear_existing, failed, now + 1)
    /\ now' = now + 1
    /\ stage' = "built"
    /\ build_failed' = failed
    /\ imports' =
          IF cleaned_df.rows = <<>> THEN imports
          ELSE IF \E k \in 1..NumBatches(cleaned_df) : BatchFails(cleaned_df, k, failed)
               THEN (IF clear_existing THEN 0 ELSE imports)
               ELSE (IF clear_existing THEN 1 ELSE imports + 1)
    /\ UNCHANGED <<all_triplets, cleaned_df, answers, extracted, run, stats, fnVars>>

\* Neo4jGraphBuilder.clear_database: MATCH (n) DETACH DELETE n (a clear
\* at another stage commutes with that stage's steps)
ClearDatabase ==
    /\ stage = "built"
    /\ graph # EmptyGraph
    /\ graph' = EmptyGraph
    /\ imports' = 0
    /\ UNCHANGED <<all_triplets, cleaned_df, stage, now, answers, extracted,
                   build_failed, run, stats, fnVars>>

\* the next run_pipeline call starts from an empty triplet list; the
\* database keeps its content
NewRun ==
    /\ stage \in {"built", "queried"}
    /\ now < MaxBuilds
    /\ extracted < MaxTriplets
    /\ all_triplets' = <<>>
    /\ cleaned_df' = EmptyDataFrame
    /\ stage' = "extract"
    /\ answers' = <<>>
    /\ build_failed' = {}
    /\ imports' = 0
    /\ stats' = <<>>
    /\ UNCHANGED <<graph, now, extracted, run, fnVars>>

\* results = self.query_engine.ask_question(question); broken: the
\* database session fails
AskQuestion(question, broken) ==
    /\ stage = "built"
    /\ \E outcome \in ask_question(graph, question, broken) :
          answers' = <<[question |-> question, broken |-> broken,
                       raised |-> outcome.raised, rows |-> outcome.rows]>>
    /\ stage' = "queried"
    /\ UNCHANGED <<all_triplets, cleaned_df, graph, now, extracted, build_failed, imports, run, stats, fnVars>>

\* stats = self.graph_builder.get_graph_stats(); broken: the database
\* session fails
GetGraphStats(broken) ==
    /\ stage = "built"
    /\ stats' = <<[broken |-> broken] @@ get_graph_stats(graph, broken)>>
    /\ stage' = "queried"
    /\ UNCHANGED <<all_triplets, cleaned_df, graph, now, answers, extracted, build_failed,
                   imports, run, fnVars>>

(* ------------------------------------------------------------------ *)
(* KnowledgeGraphPipeline.run_pipeline, step by step                   *)
(* ------------------------------------------------------------------ *)
\* most sentences preprocessing yields
MaxSentences == 2

\* the step is logged as started
Started(step) == [run EXCEPT !.started = Append(@, step)]

\* `return False`, from a check or from the except clause
ReturnFalse(r) == [r EXCEPT !.result = "False"]

\* Step 1: sentences = self.preprocessor.preprocess_file(input_file)
Preprocess(n) ==
    /\ stage = "start"
    /\ run' = IF n = 0
              THEN ReturnFalse([Started("Preprocess") EXCEPT !.sentences = 0, !.left = 0])
              ELSE [Started("Preprocess") EXCEPT !.sentences = n, !.left = n]
    /\ stage' = IF n = 0 THEN "returned" ELSE "extract"
    /\ all_triplets' = <<>>
    /\ UNCHANGED <<cleaned_df, graph, now, answers, extracted, build_failed, imports, stats, fnVars>>

\* Step 2, one turn of the loop: all_triplets.extend(extract_from_text(sentence))
ExtractSentence(triplets) ==
    /\ stage = "extract"
    /\ extracted + Len(triplets) <= MaxTriplets
    /\ all_triplets' = all_triplets \o triplets
    /\ extracted' = extracted + Len(triplets)
    /\ run' = [(IF run.left = run.sentences THEN Started("Extract") ELSE run)
                  EXCEPT !.left = @ - 1]
    /\ stage' = IF run.left = 1 THEN "clean" ELSE "extract"
    /\ UNCHANGED <<cleaned_df, graph, now, answers, build_failed, imports, stats, fnVars>>

\* Step 2, a turn of the loop in which extract_from_text raises (in local
\* mode: the model fails, or float() refuses a confidence): the except
\* clause of run_pipeline returns False
ExtractSentenceRaises ==
    /\ stage = "extract"
    /\ run' = ReturnFalse(IF run.left = run.sentences THEN Started("Extract") ELSE run)
    /\ stage' = "returned"
    /\ UNCHANGED <<all_triplets, cleaned_df, graph, now, answers, extracted, build_failed,
                   imports, stats, fnVars>>

\* fault variant of PipelineClean: no check of cleaned_df.empty
PipelineCleanUnchecked ==
    /\ stage = "clean"
    /\ cleaned_df' \in clean_triplets(all_triplets)
    /\ run' = Started("Clean")
    /\ stage' = "build"
    /\ UNCHANGED <<all_triplets, graph, now, answers, extracted, build_failed, imports, stats, fnVars>>

\* Step 3: cleaned_df = self.cleaner.clean_triplets(all_triplets)
PipelineClean ==
    /\ stage = "clean"
    /\ cleaned_df' \in clean_triplets(all_triplets)
    /\ run' = IF cleaned_df'.rows = <<>> THEN ReturnFalse(Started("Clean"))
              ELSE Started("Clean")
    /\ stage' = IF cleaned_df'.rows = <<>> THEN "returned" ELSE "build"
    /\ UNCHANGED <<all_triplets, graph, now, answers, extracted, build_failed, imports, stats, fnVars>>

\* Step 4: self.graph_builder.build_graph(cleaned_df, clear_existing); when
\* the database is down, clear_database or _create_constraints raises and
\* the except clause of run_pipeline returns False
PipelineBuild(clear_existing, failed, down) ==
    /\ stage = "build"
    /\ now < MaxBuilds
    /\ now' = now + 1
    /\ IF down /\ cleaned_df.rows # <<>>
       THEN /\ run' = ReturnFalse(Started("Build"))
            /\ stage' = "returned"
            /\ UNCHANGED <<graph, build_failed, imports>>
       ELSE /\ run' = Started("Build")
            /\ stage' = "stats"
            /\ graph' = build_graph(graph, cleaned_df, clear_existing, failed, now + 1)
            /\ build_failed' = failed
            /\ imports' =
                  IF cleaned_df.rows = <<>> THEN imports
                  ELSE IF \E k \in 1..NumBatches(cleaned_df) : BatchFails(cleaned_df, k, failed)
                       THEN (IF clear_existing THEN 0 ELSE imports)
                       ELSE (IF clear_existing THEN 1 ELSE imports + 1)
    /\ UNCHANGED <<all_triplets, cleaned_df, answers, extracted, stats, fnVars>>

\* stats = self.graph_builder.get_graph_stats(): it has no try of its own,
\* so when it raises the except clause of run_pipeline returns False
PipelineStats(down) ==
    /\ stage = "stats"
    /\ stats' = <<[broken |-> down] @@ get_graph_stats(graph, down)>>
    /\ run' = IF stats'[1].raised THEN ReturnFalse(Started("Stats")) ELSE Started("Stats")
    /\ stage' = IF stats'[1].raised THEN "returned" ELSE "query"
    /\ UNCHANGED <<all_triplets, cleaned_df, graph, now, answers, extracted,
                   build_failed, imports, fnVars>>

\* Step 5: ask_question for each of sample_questions, then `return True`;
\* the step follows a get_graph_stats that returned, which PipelineStats
\* never yields, so it is no step of NextPipeline
PipelineQueries(broken) ==
    /\ stage = "query"
    /\ \E outcomes \in [1..Len(sample_questions) ->
                          UNION {ask_question(graph, sample_questions[k], broken) :
                                    k \in 1..Len(sample_questions)}] :
          /\ \A k \in 1..Len(sample_questions) :
                outcomes[k] \in ask_question(graph, sample_questions[k], broken)
          /\ answers' = [k \in 1..Len(sample_questions) |->
                            [question |-> sample_questions[k], broken |-> broken,
                             raised |-> outcomes[k].raised, rows |-> outcomes[k].rows]]
    /\ run' = [Started("Query") EXCEPT !.result = "True"]
    /\ stage' = "returned"
    /\ UNCHANGED <<all_triplets, cleaned_df, graph, now, extracted, build_failed, imports, stats, fnVars>>

\* run_pipeline is called again; the database keeps its content
RunPipeline ==
    /\ stage = "returned"
    /\ now < MaxBuilds
    /\ extracted < MaxTriplets
    /\ stage' = "start"
    /\ run' = NoPipeline
    /\ all_triplets' = <<>>
    /\ cleaned_df' = EmptyDataFrame
    /\ answers' = <<>>
    /\ build_failed' = {}
    /\ imports' = 0
    /\ stats' = <<>>
    /\ UNCHANGED <<graph, now, extracted, fnVars>>

InitPipeline ==
    /\ relation_arg = <<>>
    /\ entity_arg = <<>>
    /\ query_arg = NoQuestion
    /\ extract_arg = NoExtraction
    /\ NoCalls
    /\ all_triplets = <<>>
    /\ cleaned_df = EmptyDataFrame
    /\ stage = "start"
    /\ graph = EmptyGraph
    /\ now = 0
    /\ answers = <<>>
    /\ extracted = 0
    /\ build_failed = {}
    /\ imports = 0
    /\ stats = <<>>
    /\ run = NoPipeline

NextPipeline ==
    \/ \E n \in 0..MaxSentences : Preprocess(n)
    \/ \E triplets \in {<<>>} \cup {<<t>> : t \in TripletPool} : ExtractSentence(triplets)
    \/ ExtractSentenceRaises
    \/ PipelineClean
    \/ \E clear_existing \in BOOLEAN :
          \E failed \in SUBSET (1..NumBatches(cleaned_df)) :
             \E down \in BOOLEAN : PipelineBuild(clear_existing, failed, down)
    \/ \E down \in BOOLEAN : PipelineStats(down)
    \/ RunPipeline

SpecPipeline == InitPipeline /\ [][NextPipeline]_vars

\* build_graph on tables of several batches
InitBatches ==
    /\ relation_arg = <<>>
    /\ entity_arg = <<>>
    /\ query_arg = NoQuestion
    /\ extract_arg = NoExtraction
    /\ run = NoPipeline
    /\ NoCalls
    /\ all_triplets = <<>>
    /\ cleaned_df \in BatchTables
    /\ stage = "cleaned"
    /\ graph = EmptyGraph
    /\ now = 0
    /\ answers = <<>>
    /\ extracted = 0
    /\ build_failed = {}
    /\ imports = 0
    /\ stats = <<>>

NextBatches ==
    \E clear_existing \in BOOLEAN :
       \E failed \in SUBSET (1..NumBatches(cleaned_df)) :
          BuildGraph(clear_existing, failed)

SpecBatches == InitBatches /\ [][NextBatches]_vars

Init ==
    /\ relation_arg = <<>>
    /\ entity_arg = <<>>
    /\ query_arg = NoQuestion
    /\ extract_arg = NoExtraction
    /\ NoCalls
    /\ NoRun

Next ==
    \/ \E t \in TripletPool : ExtractFromText(t)
    \/ CleanTriplets
    \/ \E clear_existing \in BOOLEAN :
          \E failed \in SUBSET (1..NumBatches(cleaned_df)) :
             BuildGraph(clear_existing, failed)
    \/ ClearDatabase
    \/ NewRun
    \/ \E question \in Questions : \E broken \in BOOLEAN : AskQuestion(question, broken)
    \/ \E broken \in BOOLEAN : GetGraphStats(broken)

Spec == Init /\ [][Next]_vars

(* ------------------------------------------------------------------ *)
(* Properties                                                          *)
(* ------------------------------------------------------------------ *)
\* cleaned_df is what clean_triplets returned for all_triplets
Cleaned == stage # "extract"

\* the raw triplet a row of cleaned_df came from (rows keep their label)
Origin(row) == all_triplets[row.index + 1]

\* the rows of cleaned_df that came from the i-th raw triplet
RowsFrom(i) ==
    {k \in 1..Len(cleaned_df.rows) : cleaned_df.rows[k].index = i - 1}

\* the i-th raw triplet has a confidence field with a value in set
ConfidenceIn(i, set) ==
    "confidence" \in DOMAIN all_triplets[i] /\ all_triplets[i].confidence \in set

AtLeastThreshold == confidence_threshold..100

BelowThreshold == 0..(confidence_threshold - 1)

\* no earlier raw triplet has the same (head, relation, tail)
FirstOccurrence(i) ==
    ~\E j \in 1..(i - 1) : SameTriple(all_triplets[j], all_triplets[i])

\* the i-th raw triplet passes the whitelist and the self-loop filter
PassesRelationAndLoop(i) ==
    /\ _standardize_relation(all_triplets[i].relation) \in valid_relations
    /\ _clean_entity_name(all_triplets[i].head) # _clean_entity_name(all_triplets[i].tail)

NodeNames(g) == {g.nodes[i].name : i \in 1..Len(g.nodes)}

EdgeKeys(g) ==
    {<<g.nodes[g.edges[i].src].name, g.edges[i].type, g.nodes[g.edges[i].dst].name>> :
        i \in 1..Len(g.edges)}

\* a build_graph(cleaned_df, clear_existing=False) step in which no batch
\* fails, taken on a graph that holds a complete import of cleaned_df
RebuildStep ==
    /\ imports >= 1
    /\ stage = "built"
    /\ now' = now + 1
    /\ imports' = imports + 1
    /\ graph' = build_graph(graph, cleaned_df, FALSE, {}, now + 1)

\* C1: building the same canonical table a second time without clearing
\* (no batch failing, no other writer) leaves the set of node names and the
\* set of (head, relation, tail) edges unchanged, and so the node and edge
\* counts.
C1_RebuildIsIdempotent ==
    [][RebuildStep =>
          /\ NodeNames(graph') = NodeNames(graph)
          /\ EdgeKeys(graph') = EdgeKeys(graph)
          /\ Len(graph'.nodes) = Len(graph.nodes)
          /\ Len(graph'.edges) = Len(graph.edges)]_vars

\* the same non-empty table has been imported completely twice in a row
C1_Witness ==
    /\ imports = 2
    /\ stage = "built"
    /\ Len(graph.edges) >= 1
    /\ \A i \in 1..Len(graph.edges) : graph.edges[i].created = 2

\* C2: once the raw triplet (Apple, acquired, DarwinAI) has been cleaned and
\* the cleaned table built into the graph, a question containing "company
\* acquisitions" returns at least one row whose acquirer is "Apple".
C2_AcquisitionsQueryFindsApple ==
    \A n \in 1..Len(answers) :
        ( /\ \E i \in 1..Len(all_triplets) :
                /\ all_triplets[i].head = N_Apple
                /\ all_triplets[i].relation = W_acquired
                /\ all_triplets[i].tail = N_DarwinAI
                /\ RowsFrom(i) # {}
          /\ imports >= 1
          /\ ~answers[n].broken
          /\ Contains(Strip(Lower(answers[n].question)), query_templates[1][1]) )
        => \E row \in answers[n].rows :
              row[1] = <<"acquirer", N_Apple>>

\* C3: duplicates of a raw (head, relation, tail) are dropped first: the
\* output holds at most one record per raw tuple, it comes from the first
\* occurrence in input order and carries that occurrence's confidence and
\* types.
C3_DedupKeepsFirstOccurrence ==
    Cleaned =>
        /\ \A k \in 1..Len(cleaned_df.rows) :
              LET row == cleaned_df.rows[k]
              IN  /\ FirstOccurrence(row.index + 1)
                  /\ \A f \in {"confidence", "head_type", "tail_type"} \cap DOMAIN Origin(row) :
                        row[f] = Origin(row)[f]
        /\ \A k1, k2 \in 1..Len(cleaned_df.rows) :
              SameTriple(Origin(cleaned_df.rows[k1]), Origin(cleaned_df.rows[k2])) => k1 = k2

\* a raw tuple occurs twice with different confidence and its first
\* occurrence is in the output
C3_Witness ==
    /\ Cleaned
    /\ \E i, j \in 1..Len(all_triplets) :
          /\ i < j
          /\ SameTriple(all_triplets[i], all_triplets[j])
          /\ ConfidenceIn(i, AtLeastThreshold)
          /\ ConfidenceIn(j, BelowThreshold)
          /\ RowsFrom(i) # {}

\* C4: the confidence filter is inclusive: a triplet with confidence below
\* the threshold is never in the output, and one with confidence exactly
\* the threshold is not removed by it (it is in the output when the other
\* steps keep it).
C4_ThresholdIsInclusive ==
    Cleaned =>
        \A i \in 1..Len(all_triplets) :
            "confidence" \in DOMAIN all_triplets[i] =>
                /\ all_triplets[i].confidence < confidence_threshold => RowsFrom(i) = {}
                /\ ( /\ all_triplets[i].confidence = confidence_threshold
                     /\ FirstOccurrence(i)
                     /\ PassesRelationAndLoop(i) ) => RowsFrom(i) # {}

\* one triplet at the threshold is kept, one below it is dropped by the
\* filter
C4_Witness ==
    /\ Cleaned
    /\ \E i, j \in 1..Len(all_triplets) :
          /\ ConfidenceIn(i, {confidence_threshold})
          /\ RowsFrom(i) # {}
          /\ FirstOccurrence(j)
          /\ ConfidenceIn(j, BelowThreshold)
          /\ RowsFrom(j) = {}

\* C5: a triplet that has no confidence field bypasses the confidence
\* filter, also when other triplets of the batch have one: it is in the
\* output when the other steps keep it.
C5_MissingConfidenceBypassesFilter ==
    Cleaned =>
        \A i \in 1..Len(all_triplets) :
            ( /\ "confidence" \notin DOMAIN all_triplets[i]
              /\ FirstOccurrence(i)
              /\ PassesRelationAndLoop(i) ) => RowsFrom(i) # {}

\* the keys of the synonym mapping that occur in s, by position
KeysInside(s) ==
    {k \in 1..Len(relation_standardization) : Contains(s, relation_standardization[k][1])}

\* C6: the relation is lower-cased and trimmed; an exactly matching synonym
\* key gives its canonical name, otherwise the first key in declaration
\* order that occurs as a substring gives its canonical name, otherwise the
\* string is upper-cased; "acquired", "bought" and "ACQUISITION" give
\* "ACQUIRED".
C6_StandardizeRelation ==
    \A n \in 1..Len(relation_calls) :
        LET relation == relation_calls[n].relation
            result   == relation_calls[n].result
            s        == Lower(Strip(relation))
            exact    == {k \in 1..Len(relation_standardization) :
                            relation_standardization[k][1] = s}
            inside   == KeysInside(s)
        IN  relation # NaNStr =>
              /\ exact # {} => \E k \in exact : result = relation_standardization[k][2]
              /\ (exact = {} /\ inside # {}) =>
                    \E k \in inside :
                        /\ \A m \in inside : k <= m
                        /\ result = relation_standardization[k][2]
              /\ inside = {} => result = Upper(s)
              /\ relation \in {W_acquired, W_bought, W_ACQUISITION} => result = R_ACQUIRED

\* a phrase that is no key and holds two keys of different canonical names
\* got the name of the one declared first
C6_Witness ==
    \E n \in 1..Len(relation_calls) :
        LET s == Lower(Strip(relation_calls[n].relation))
        IN  /\ s \notin RelationKeys
            /\ \E k, m \in KeysInside(s) :
                  /\ k < m
                  /\ \A x \in KeysInside(s) : k <= x
                  /\ relation_standardization[k][2] # relation_standardization[m][2]
                  /\ relation_calls[n].result = relation_standardization[k][2]

\* C7: every row of the output has a relation of the configured set, and a
\* triplet whose standardized relation is outside it is not in the output.
C7_OnlyValidRelations ==
    Cleaned =>
        /\ \A k \in 1..Len(cleaned_df.rows) : cleaned_df.rows[k].relation \in valid_relations
        /\ \A i \in 1..Len(all_triplets) :
              _standardize_relation(all_triplets[i].relation) \notin valid_relations
                  => RowsFrom(i) = {}

\* a confident triplet with a relation outside the set was dropped while
\* another triplet was kept
C7_Witness ==
    /\ Cleaned
    /\ cleaned_df.rows # <<>>
    /\ \E i \in 1..Len(all_triplets) :
          /\ _standardize_relation(all_triplets[i].relation) \notin valid_relations
          /\ ConfidenceIn(i, AtLeastThreshold)
          /\ RowsFrom(i) = {}

\* C8: no row of the output has head equal to tail, equality taken on the
\* cleaned names: a triplet whose cleaned head and tail are equal is
\* removed whatever its confidence.
C8_NoSelfLoops ==
    Cleaned =>
        /\ \A k \in 1..Len(cleaned_df.rows) : cleaned_df.rows[k].head # cleaned_df.rows[k].tail
        /\ \A i \in 1..Len(all_triplets) :
              _clean_entity_name(all_triplets[i].head) = _clean_entity_name(all_triplets[i].tail)
                  => RowsFrom(i) = {}

\* a confident triplet with a valid relation whose raw head and tail differ
\* and become equal by cleaning was dropped
C8_Witness ==
    /\ Cleaned
    /\ \E i \in 1..Len(all_triplets) :
          /\ all_triplets[i].head # all_triplets[i].tail
          /\ _clean_entity_name(all_triplets[i].head) = _clean_entity_name(all_triplets[i].tail)
          /\ _standardize_relation(all_triplets[i].relation) \in valid_relations
          /\ ConfidenceIn(i, AtLeastThreshold)
          /\ FirstOccurrence(i)
          /\ RowsFrom(i) = {}

\* C9: the type checks run in the order company suffix, person shape, date,
\* currency and the first that matches decides, else ENTITY; "Tim Cook" is
\* PERSON, "Apple Inc" COMPANY, "$100 million" CURRENCY, "January 2024" DATE
\* and "DarwinAI" ENTITY.
C9_InferTypeInOrder ==
    \A n \in 1..Len(type_calls) :
        LET e      == type_calls[n].entity
            result == type_calls[n].result
        IN  e # NaNStr =>
              /\ IsCompanyName(e) => result = "COMPANY"
              /\ (~IsCompanyName(e) /\ MatchesPersonShape(e)) => result = "PERSON"
              /\ (~IsCompanyName(e) /\ ~MatchesPersonShape(e) /\ IsDateName(e))
                    => result = "DATE"
              /\ (~IsCompanyName(e) /\ ~MatchesPersonShape(e) /\ ~IsDateName(e)
                  /\ IsCurrencyName(e)) => result = "CURRENCY"
              /\ (~IsCompanyName(e) /\ ~MatchesPersonShape(e) /\ ~IsDateName(e)
                  /\ ~IsCurrencyName(e)) => result = "ENTITY"
              /\ e = N_TimCook => result = "PERSON"
              /\ e = N_AppleInc => result = "COMPANY"
              /\ e = N_100Million => result = "CURRENCY"
              /\ e = N_January2024 => result = "DATE"
              /\ e = N_DarwinAI => result = "ENTITY"

\* a name that matches both the date and the currency check was typed DATE
C9_Witness ==
    \E n \in 1..Len(type_calls) :
        /\ IsDateName(type_calls[n].entity)
        /\ IsCurrencyName(type_calls[n].entity)
        /\ type_calls[n].result = "DATE"

InferredTypes == {"COMPANY", "PERSON", "DATE", "CURRENCY", "ENTITY"}

\* C10: every row of a non-empty output has a head_type and a tail_type
\* that is one of COMPANY, PERSON, DATE, CURRENCY, ENTITY or the type the
\* extractor gave for that row, also when only some triplets carried types.
C10_EveryRowIsTyped ==
    Cleaned =>
        \A k \in 1..Len(cleaned_df.rows) :
            \A f \in {"head_type", "tail_type"} :
                LET row == cleaned_df.rows[k]
                IN  /\ f \in DOMAIN row
                    /\ \/ row[f] \in InferredTypes
                       \/ f \in DOMAIN Origin(row) /\ row[f] = Origin(row)[f]
\* the positions of the rows of df whose batch is imported when the
\* sessions of the batches in failed break
ImportedRows(df, failed) ==
    LET lost == {k \in 1..NumBatches(df) : BatchFails(df, k, failed)}
    IN  {i \in 1..Len(df.rows) : ((i - 1) \div batch_size + 1) \notin lost}

RowKey(row) == <<row.head, row.relation, row.tail>>

EdgeKey(g, i) == <<g.nodes[g.edges[i].src].name, g.edges[i].type, g.nodes[g.edges[i].dst].name>>

\* C11: a batch whose import fails does not abort build_graph: after the
\* call every row of every batch that did not fail, the batches after a
\* failed one included, has its edge written by this call, and on an empty
\* graph the edges stand in table order; the call returns (stage "built").
C11_FailedBatchDoesNotAbort ==
    [][(now' = now + 1 /\ cleaned_df.rows # <<>>) =>
          LET kept == ImportedRows(cleaned_df, build_failed')
          IN  /\ stage' = "built"
              /\ \A i \in kept :
                    \E e \in 1..Len(graph'.edges) :
                       /\ EdgeKey(graph', e) = RowKey(cleaned_df.rows[i])
                       /\ graph'.edges[e].created = now'
                       /\ graph'.edges[e].confidence = cleaned_df.rows[i].confidence
              /\ (graph = EmptyGraph) =>
                    /\ Len(graph'.edges) = Cardinality(kept)
                    /\ \A i \in kept :
                          EdgeKey(graph', Cardinality({j \in kept : j <= i}))
                             = RowKey(cleaned_df.rows[i])]_vars

\* the second of three batches failed and the third was imported
C11_Witness ==
    /\ stage = "built"
    /\ build_failed = {2}
    /\ NumBatches(cleaned_df) = 3
    /\ \E e \in 1..Len(graph.edges) :
          EdgeKey(graph, e) = RowKey(cleaned_df.rows[2 * batch_size + 1])
    /\ ~\E e \in 1..Len(graph.edges) :
          EdgeKey(graph, e) = RowKey(cleaned_df.rows[batch_size + 1])

\* the edges of g between the nodes named head and tail with relation name
\* relation
EdgesWithKey(g, key) == {e \in 1..Len(g.edges) : EdgeKey(g, e) = key}

\* the last imported row of cleaned_df with the key of row i
LastWithKey(kept, i) ==
    CHOOSE j \in kept :
        /\ RowKey(cleaned_df.rows[j]) = RowKey(cleaned_df.rows[i])
        /\ \A n \in kept : RowKey(cleaned_df.rows[n]) = RowKey(cleaned_df.rows[i]) => n <= j

\* C12: the graph never holds two edges with the same (head, relation,
\* tail); a build_graph call adds no edge for a key the graph already has,
\* and after it the one edge of every imported row carries the confidence
\* of the last imported row with that key, source 'extracted' and the time
\* of this call, whatever the edge held before.
C12_OneEdgePerKeyLastWriteWins ==
    [][/\ \A e1, e2 \in 1..Len(graph'.edges) :
             EdgeKey(graph', e1) = EdgeKey(graph', e2) => e1 = e2
       /\ (now' = now + 1 /\ cleaned_df.rows # <<>>) =>
             LET kept == ImportedRows(cleaned_df, build_failed')
             IN  /\ Len(graph'.edges) <=
                      Cardinality(EdgeKeys(graph) \cup {RowKey(cleaned_df.rows[i]) : i \in kept})
                 /\ \A i \in kept :
                       \E e \in 1..Len(graph'.edges) :
                          /\ EdgesWithKey(graph', RowKey(cleaned_df.rows[i])) = {e}
                          /\ graph'.edges[e].confidence =
                                TripletData(cleaned_df.columns,
                                            cleaned_df.rows[LastWithKey(kept, i)]).confidence
                          /\ graph'.edges[e].source = "extracted"
                          /\ graph'.edges[e].created = now']_vars

\* two rows of the table have the same key and different confidence, and
\* the edge holds the confidence of the later, lower one
C12_Witness ==
    /\ stage = "built"
    /\ imports >= 1
    /\ \E i, j \in 1..Len(cleaned_df.rows) :
          /\ i < j
          /\ RowKey(cleaned_df.rows[i]) = RowKey(cleaned_df.rows[j])
          /\ cleaned_df.rows[i].confidence > cleaned_df.rows[j].confidence
          /\ \E e \in 1..Len(graph.edges) :
                /\ EdgeKey(graph, e) = RowKey(cleaned_df.rows[i])
                /\ graph.edges[e].confidence = cleaned_df.rows[j].confidence

\* the labels of the node of g named name
LabelsOf(g, name) ==
    UNION {g.nodes[n].labels : n \in {m \in 1..Len(g.nodes) : g.nodes[m].name = name}}

\* C13: a build_graph call with clear_existing=False takes no label from a
\* node: every node keeps its name and all the labels it had, and the head
\* and tail of every imported row carry the row's type as a label.
C13_LabelsOnlyGrow ==
    [][BuildGraph(FALSE, build_failed') =>
          /\ \A n \in 1..Len(graph.nodes) :
                /\ graph.nodes[n].name \in NodeNames(graph')
                /\ graph.nodes[n].labels \subseteq LabelsOf(graph', graph.nodes[n].name)
          /\ \A i \in ImportedRows(cleaned_df, build_failed') :
                LET triplet == TripletData(cleaned_df.columns, cleaned_df.rows[i])
                IN  /\ triplet.head_type \in LabelsOf(graph', triplet.head)
                    /\ triplet.tail_type \in LabelsOf(graph', triplet.tail)]_vars

\* a node was first imported as COMPANY and later as ENTITY and has both
\* labels
C13_Witness ==
    /\ stage = "built"
    /\ now = 2
    /\ \E n \in 1..Len(graph.nodes) :
          /\ graph.nodes[n].type = "ENTITY"
          /\ graph.nodes[n].labels = {"Entity", "COMPANY", "ENTITY"}

\* C14: whatever build_graph and clear_database calls were made, no two
\* nodes of the graph have the same name, and every node has the label
\* Entity under which MERGE looks names up.
C14_UniqueNodeNames ==
    \A n, m \in 1..Len(graph.nodes) :
        /\ "Entity" \in graph.nodes[n].labels
        /\ graph.nodes[n].name = graph.nodes[m].name => n = m

\* two imported triplets share their head: two edges leave one node
C14_Witness ==
    /\ stage = "built"
    /\ \E e1, e2 \in 1..Len(graph.edges) :
          /\ e1 # e2
          /\ graph.edges[e1].src = graph.edges[e2].src
          /\ graph.edges[e1].created < graph.edges[e2].created
    /\ Len(graph.nodes) = 3

\* every node name and every (head, relation, tail) of g is in h
GraphWithin(g, h) ==
    /\ NodeNames(g) \subseteq NodeNames(h)
    /\ EdgeKeys(g) \subseteq EdgeKeys(h)
    /\ Len(g.nodes) <= Len(h.nodes)
    /\ Len(g.edges) <= Len(h.edges)

\* C15: a build_graph call with clear_existing=False removes no node and no
\* edge, and so does a call with clear_existing=True on an empty table; a
\* step that removes a node or an edge is clear_database, or build_graph
\* with clear_existing=True on a table with rows, which removes them all.
C15_NeverShrinksWithoutClear ==
    [][/\ BuildGraph(FALSE, build_failed') => GraphWithin(graph, graph')
       /\ (BuildGraph(TRUE, build_failed') /\ cleaned_df.rows = <<>>) => graph' = graph
       /\ ~GraphWithin(graph, graph') =>
             \/ ClearDatabase
             \/ /\ cleaned_df.rows # <<>>
                /\ BuildGraph(TRUE, build_failed')
                /\ graph' = build_graph(EmptyGraph, cleaned_df, FALSE, build_failed', now')]_vars

\* an edge written by the first build_graph call is still there after the
\* second call wrote another one
C15_Witness ==
    /\ stage = "built"
    /\ \E e1, e2 \in 1..Len(graph.edges) :
          /\ graph.edges[e1].created = 1
          /\ graph.edges[e2].created = 2
          /\ graph.edges[e1].dst # graph.edges[e2].dst

\* the templates whose phrase the lower-cased, trimmed question contains
ContainedTemplates(question) ==
    {k \in 1..Len(query_templates) :
        Contains(Strip(Lower(question)), query_templates[k][1])}

\* some rule pattern of _rule_based_conversion matches the question
RuleMatches(question) ==
    \E k \in 1..Len(rule_patterns) : RuleStarts(Lower(question), rule_patterns[k]) # {}

\* the external translation is attempted for this call
LlmEnabled(arg) == arg.use_llm /\ arg.mode = "api"

\* C16: a question whose lower-cased, trimmed text contains a template
\* phrase gets the fixed query of a template it contains (the first in
\* declaration order), never the query of a rule pattern and never the
\* result of the external translation, whatever use_llm is.
C16_TemplateTakesPrecedence ==
    \A n \in 1..Len(query_calls) :
        LET question == query_calls[n].arg.question
            result == query_calls[n].result
            found == ContainedTemplates(question)
        IN  found # {} =>
              /\ \E k \in found :
                    /\ result = query_templates[k][2]
                    /\ \A j \in found : k <= j
              /\ result # _rule_based_conversion(question)
              /\ result # query_calls[n].arg.llm_result

\* a question holds a template phrase and matches a rule pattern, the
\* external translation is on and would answer, and the template is returned
C16_Witness ==
    \E n \in 1..Len(query_calls) :
        /\ ContainedTemplates(query_calls[n].arg.question) = {1}
        /\ RuleMatches(query_calls[n].arg.question)
        /\ LlmEnabled(query_calls[n].arg)
        /\ query_calls[n].arg.llm_result = LlmGenerated
        /\ query_calls[n].result = query_templates[1][2]

\* C17: query_to_cypher takes the first strategy that succeeds in the order
\* template, rule pattern, external translation (when enabled), generic
\* fallback: a question matching a rule pattern gets that rule's query even
\* with the external translation on, and a failed external translation ends
\* in the generic fallback.
C17_StrategiesInOrder ==
    \A n \in 1..Len(query_calls) :
        LET arg == query_calls[n].arg
            found == ContainedTemplates(arg.question)
        IN  query_calls[n].result =
              IF found # {}
              THEN query_templates[CHOOSE k \in found : \A j \in found : k <= j][2]
              ELSE IF RuleMatches(arg.question) THEN _rule_based_conversion(arg.question)
              ELSE IF LlmEnabled(arg) /\ arg.llm_result \notin {None, EmptyText}
              THEN arg.llm_result
              ELSE DefaultQuery

\* the edges of g with the text in the name of their source or target
EdgesNaming(g, text) ==
    {e \in 1..Len(g.edges) :
        \/ Contains(g.nodes[g.edges[e].src].name, text)
        \/ Contains(g.nodes[g.edges[e].dst].name, text)}

\* the row the generic fallback returns for edge e
FallbackRow(g, e) ==
    << <<"source", g.nodes[g.edges[e].src].name>>,
       <<"relationship", g.edges[e].reltype>>,
       <<"target", g.nodes[g.edges[e].dst].name>> >>

\* C18: when the question holds no template phrase and matches no rule
\* pattern, ask_question returns the edges whose source or target name
\* contains the question text, all of them when they are at most 10.
C18_FallbackSearchesQuestionText ==
    \A n \in 1..Len(answers) :
        ( /\ ~answers[n].broken
          /\ ContainedTemplates(answers[n].question) = {}
          /\ ~RuleMatches(answers[n].question)
          /\ Cardinality(EdgesNaming(graph, answers[n].question)) <= query_limit )
        => answers[n].rows =
              {FallbackRow(graph, e) : e \in EdgesNaming(graph, answers[n].question)}

\* the query ask_question runs for the question
AskedQuery(question) == query_to_cypher(question, FALSE, None)

\* C19: ask_question and the execute_query call inside it let no exception
\* out: they return a list, which is empty when the session is broken, when
\* the statement does not parse or lacks a parameter, when there is no
\* query to run, and when the query matches nothing.
C19_QueryErrorsGiveEmptyList ==
    \A n \in 1..Len(answers) :
        LET q == AskedQuery(answers[n].question)
        IN  /\ ~answers[n].raised
            /\ ( \/ q \in {None, EmptyText}
                 \/ RunFails(q, answers[n].broken)
                 \/ PathMatches(graph, q) = {} ) => answers[n].rows = {}

\* a question was asked on a graph with edges while the database session
\* was broken
C19_Witness ==
    \E n \in 1..Len(answers) :
        /\ answers[n].broken
        /\ AskedQuery(answers[n].question).kind = "path"
        /\ ~Malformed(AskedQuery(answers[n].question))
        /\ Len(graph.edges) >= 1
        /\ answers[n].rows = {}

\* a question whose name holds a quote gave a statement that does not parse
C19_WitnessMalformed ==
    \E n \in 1..Len(answers) :
        /\ ~answers[n].broken
        /\ AskedQuery(answers[n].question).kind = "path"
        /\ Malformed(AskedQuery(answers[n].question))

\* the steps of run_pipeline in the order of its code
PipelineSteps == <<"Preprocess", "Extract", "Clean", "Build", "Stats", "Query">>

HasStarted(step) == \E k \in 1..Len(run.started) : run.started[k] = step

C20_WitnessNoSentence ==
    /\ run.result = "False"
    /\ run.sentences = 0
    /\ run.started = <<"Preprocess">>

(* ------------------------------------------------------------------ *)
(* The extractor's responses                                           *)
(* ------------------------------------------------------------------ *)
\* a record of a response that is to be kept: it has head, relation and
\* tail, and its confidence, when it has one, is one float() accepts
ValidRecord(record) ==
    /\ {"head", "relation", "tail"} \subseteq DOMAIN record
    /\ "confidence" \in DOMAIN record => ~float(record.confidence).raised

\* the triplet a valid record gives
TripletOf(record) ==
    [k \in DOMAIN record \cup {"confidence"} |->
        IF k = "confidence"
        THEN (IF "confidence" \in DOMAIN record THEN float(record.confidence).value
              ELSE added_confidence)
        ELSE record[k]]

ValidTriplets(records) ==
    LET valid == SelectSeq(records, ValidRecord)
    IN  [i \in 1..Len(valid) |-> TripletOf(valid[i])]

\* C21: when the model answers with an array of records, extract_from_text
\* raises nothing and returns exactly the valid records of the array, in
\* their order: a record without head, relation or tail, or with a
\* confidence that is no number, is dropped alone.
C21_OnlyInvalidRecordDropped ==
    \A n \in 1..Len(extract_calls) :
        LET arg == extract_calls[n].arg
        IN  (arg.response.kind = "array" /\ ~arg.generation_fails) =>
               /\ ~extract_calls[n].result.raised
               /\ extract_calls[n].result.triplets = ValidTriplets(arg.response.records)

(* ------------------------------------------------------------------ *)
(* Graph statistics                                                    *)
(* ------------------------------------------------------------------ *)
\* C22: with a working database session, get_graph_stats returns four
\* counts of the graph as it is: its nodes, the distinct labels of its
\* nodes, its edges, and the distinct relation types of its edges (the
\* relation an edge was built from: ACQUIRED, LAUNCHED, ...).
C22_StatsCountLiveGraph ==
    \A n \in 1..Len(stats) :
        ~stats[n].broken =>
           /\ ~stats[n].raised
           /\ stats[n].stats.total_nodes = Len(graph.nodes)
           /\ stats[n].stats.unique_labels =
                 Cardinality(UNION {graph.nodes[i].labels : i \in 1..Len(graph.nodes)})
           /\ stats[n].stats.total_relationships = Len(graph.edges)
           /\ stats[n].stats.unique_relationship_types =
                 Cardinality({graph.edges[i].type : i \in 1..Len(graph.edges)})

(* ------------------------------------------------------------------ *)
(* The entity of a rule pattern                                        *)
(* ------------------------------------------------------------------ *)
\* the first rule pattern that matches the question
FirstRule(question) ==
    CHOOSE k \in 1..Len(rule_patterns) :
        /\ RuleStarts(Lower(question), rule_patterns[k]) # {}
        /\ \A j \in 1..(k - 1) : RuleStarts(Lower(question), rule_patterns[j]) = {}

\* the whole entity span of the question for a rule pattern: what stands
\* between the pattern's opening words and its closing word, or, for a
\* pattern without closing word, all that follows the opening words
EntitySpan(question, rule) ==
    LET s == Lower(question)
        i == CHOOSE a \in RuleStarts(s, rule) : \A b \in RuleStarts(s, rule) : a <= b
        from == i + Len(rule.prefix)
    IN  IF rule.suffix = <<>> THEN SubSeq(s, from, Len(s))
        ELSE RuleGroup(s, rule)

\* C23: a question answered by a rule pattern gets the pattern's query with
\* the whole entity span of the question, trimmed and title-cased, as the
\* quoted name: "who invested in openai" gives 'Openai' and "what companies
\* did apple acquire" gives 'Apple'.
C23_RuleSubstitutesWholeEntity ==
    \A n \in 1..Len(query_calls) :
        LET arg == query_calls[n].arg
        IN  (/\ ContainedTemplates(arg.question) = {}
             /\ ~LlmEnabled(arg)
             /\ RuleMatches(arg.question)) =>
               LET k == FirstRule(arg.question)
               IN  query_calls[n].result =
                      RuleQuery(k, Title(Strip(EntitySpan(arg.question, rule_patterns[k]))))

(* ------------------------------------------------------------------ *)
(* The order and the keys of the cleaned table                         *)
(* ------------------------------------------------------------------ *)
\* C24: when the table has a confidence column, its rows are in
\* non-increasing confidence order, and rows of equal confidence are in
\* their input order.
C24_SortedDescendingStable ==
    (Cleaned /\ "confidence" \in cleaned_df.columns) =>
        \A k1, k2 \in 1..Len(cleaned_df.rows) :
            k1 < k2 =>
               /\ cleaned_df.rows[k1].confidence >= cleaned_df.rows[k2].confidence
               /\ cleaned_df.rows[k1].confidence = cleaned_df.rows[k2].confidence =>
                     cleaned_df.rows[k1].index < cleaned_df.rows[k2].index

(* ------------------------------------------------------------------ *)
(* Entity name cleaning                                                *)
(* ------------------------------------------------------------------ *)
QuoteChars == {"\"", "'"}

\* s has no whitespace but single spaces
SingleSpaced(s) ==
    \A i \in 1..Len(s) :
        s[i] \in Whitespace => (s[i] = " " /\ (i > 1 => s[i - 1] \notin Whitespace))

\* s neither starts nor ends with a quote character
Unwrapped(s) == s = <<>> \/ (s[1] \notin QuoteChars /\ s[Len(s)] \notin QuoteChars)

\* the name with its outer whitespace removed, its whitespace runs
\* collapsed and its wrapping quotes stripped
Normalized(entity) == StripChars(CollapseWhitespace(Strip(entity)), QuoteChars)

\* C25: _clean_entity_name returns the name with every whitespace run
\* collapsed to one space and the wrapping quotes stripped; a name that is
\* all upper-case or all lower-case is title-cased and a mixed-case name
\* keeps the case of every letter: "DarwinAI" stays and "apple inc" becomes
\* "Apple Inc".
C25_CleanEntityName ==
    \A n \in 1..Len(entity_calls) :
        LET entity == entity_calls[n].entity
            result == entity_calls[n].result
        IN  entity # NaNStr =>
              /\ SingleSpaced(result)
              /\ Unwrapped(result)
              /\ Lower(result) = Lower(Normalized(entity))
              /\ (IsUpperStr(Normalized(entity)) \/ IsLowerStr(Normalized(entity)))
                    => result = Title(Normalized(entity))
              /\ ~(IsUpperStr(Normalized(entity)) \/ IsLowerStr(Normalized(entity)))
                    => result = Normalized(entity)
              /\ entity = N_DarwinAI => result = N_DarwinAI
              /\ entity = Lower(N_AppleInc) => result = N_AppleInc

\* a quoted or padded mixed-case name lost its wrapping and kept its case
C25_Witness ==
    \E n \in 1..Len(entity_calls) :
        LET entity == entity_calls[n].entity
            result == entity_calls[n].result
        IN  /\ entity # NaNStr
            /\ \E i \in 1..Len(result) : IsUpperChar(result[i])
            /\ \E i \in 2..Len(result) : IsLowerChar(result[i]) /\ IsUpperChar(result[i - 1])
            /\ result # entity
            /\ result # Title(result)
            /\ result = Normalized(entity)

\* a quoted all-lower-case name was unwrapped and title-cased
C25_WitnessTitled ==
    \E n \in 1..Len(entity_calls) :
        /\ entity_calls[n].entity = <<"'">> \o Lower(N_AppleInc) \o <<"'">>
        /\ entity_calls[n].result = N_AppleInc

\* the i-th raw triplet passes the confidence filter: the batch has no
\* confidence at all, or the triplet has one at or above the threshold
PassesConfidence(i) ==
    (\E j \in 1..Len(all_triplets) : "confidence" \in DOMAIN all_triplets[j])
        => ConfidenceIn(i, AtLeastThreshold)

\* C26 as stated: no two rows of the cleaned table have the same canonical
\* (head, relation, tail).
C26_NoCanonicalDuplicates ==
    Cleaned =>
        \A k1, k2 \in 1..Len(cleaned_df.rows) :
            RowKey(cleaned_df.rows[k1]) = RowKey(cleaned_df.rows[k2]) => k1 = k2

\* C26, amended: duplicates are removed by the raw tuple only. Every raw
\* tuple whose first occurrence passes the confidence filter, the relation
\* whitelist and the self-loop filter has exactly one row in the cleaned
\* table, also when another row has the same canonical tuple; two rows
\* with the same canonical tuple always come from different raw tuples.
C26_OneRowPerRawTuple ==
    Cleaned =>
        /\ \A i \in 1..Len(all_triplets) :
              (FirstOccurrence(i) /\ PassesConfidence(i) /\ PassesRelationAndLoop(i))
                  => Cardinality(RowsFrom(i)) = 1
        /\ \A k1, k2 \in 1..Len(cleaned_df.rows) :
              (k1 # k2 /\ RowKey(cleaned_df.rows[k1]) = RowKey(cleaned_df.rows[k2]))
                  => ~SameTriple(Origin(cleaned_df.rows[k1]), Origin(cleaned_df.rows[k2]))

\* two raw triplets that differ by a relation synonym only are two rows of
\* the cleaned table with the same canonical tuple
C26_Witness ==
    /\ Cleaned
    /\ \E k1, k2 \in 1..Len(cleaned_df.rows) :
          /\ k1 # k2
          /\ RowKey(cleaned_df.rows[k1]) = RowKey(cleaned_df.rows[k2])
          /\ Origin(cleaned_df.rows[k1]).relation = W_acquired
          /\ Origin(cleaned_df.rows[k2]).relation = W_bought

\* C27: duplicates are dropped, keeping the first occurrence, before the
\* confidence filter runs: a raw (head, relation, tail) whose first
\* occurrence has a confidence below the threshold has no row in the
\* cleaned table, whatever the confidence of its later occurrences.
C27_LowFirstOccurrenceHidesLater ==
    Cleaned =>
        \A i, j \in 1..Len(all_triplets) :
            ( /\ FirstOccurrence(i)
              /\ ConfidenceIn(i, BelowThreshold)
              /\ SameTriple(all_triplets[i], all_triplets[j]) ) => RowsFrom(j) = {}

\* a raw tuple came first below the threshold and later above it, alone it
\* would have passed every filter, and the cleaned table has no row of it
C27_Witness ==
    /\ Cleaned
    /\ \E i, j \in 1..Len(all_triplets) :
          /\ i < j
          /\ FirstOccurrence(i)
          /\ SameTriple(all_triplets[i], all_triplets[j])
          /\ ConfidenceIn(i, BelowThreshold)
          /\ ConfidenceIn(j, AtLeastThreshold)
          /\ PassesRelationAndLoop(j)
          /\ RowsFrom(i) = {}
          /\ RowsFrom(j) = {}

(* ------------------------------------------------------------------ *)
(* The confidence of an edge built from a cleaned table                *)
(* ------------------------------------------------------------------ *)
\* the rows of cleaned_df with the canonical tuple of row i
RowsWithKeyOf(i) ==
    {j \in 1..Len(cleaned_df.rows) : RowKey(cleaned_df.rows[j]) = RowKey(cleaned_df.rows[i])}

\* the confidence _import_batch sends for row j of cleaned_df
SentConfidence(j) == TripletData(cleaned_df.columns, cleaned_df.rows[j]).confidence

\* C29: once build_graph has imported every batch of the cleaned table, the
\* edge of each (head, relation, tail) of the table carries the confidence
\* of the last row with that tuple, which, the table being sorted by
\* descending confidence, is the lowest confidence among those rows.
C29_EdgeCarriesLowestConfidence ==
    (stage \in {"built", "queried"} /\ imports >= 1) =>
        \A i \in 1..Len(cleaned_df.rows) :
            /\ \E e \in 1..Len(graph.edges) : EdgeKey(graph, e) = RowKey(cleaned_df.rows[i])
            /\ \A e \in 1..Len(graph.edges) :
                  EdgeKey(graph, e) = RowKey(cleaned_df.rows[i]) =>
                     /\ graph.edges[e].confidence =
                           SentConfidence(CHOOSE j \in RowsWithKeyOf(i) :
                                             \A m \in RowsWithKeyOf(i) : m <= j)
                     /\ \A j \in RowsWithKeyOf(i) :
                           graph.edges[e].confidence <= SentConfidence(j)

\* a cleaned table with the rows (Apple, ACQUIRED, DarwinAI) of confidence
\* 0.95 and 0.7 was imported and the edge carries 0.7
C29_Witness ==
    /\ stage \in {"built", "queried"}
    /\ imports >= 1
    /\ Len(cleaned_df.rows) = 2
    /\ RowKey(cleaned_df.rows[1]) = RowKey(cleaned_df.rows[2])
    /\ cleaned_df.rows[1].confidence = 95
    /\ cleaned_df.rows[2].confidence = 70
    /\ Len(graph.edges) = 1
    /\ graph.edges[1].confidence = 70

(* ------------------------------------------------------------------ *)
(* Cleaning a cleaned table again                                      *)
(* ------------------------------------------------------------------ *)
\* df.to_dict('records'): one dict per row, with every column
Records(df) == [k \in 1..Len(df.rows) |-> [c \in df.columns |-> df.rows[k][c]]]

RecordSet(df) == {Records(df)[k] : k \in 1..Len(df.rows)}

\* the tables clean_triplets may return for the records of cleaned_df
ReCleaned == clean_triplets(Records(cleaned_df))

\* the rows of cleaned_df that no earlier row equals in (head, relation, tail)
FirstOfKey ==
    {k \in 1..Len(cleaned_df.rows) :
        \A j \in 1..(k - 1) : RowKey(cleaned_df.rows[j]) # RowKey(cleaned_df.rows[k])}

\* every name of cleaned_df is a fixed point of _clean_entity_name
NamesAreClean ==
    \A k \in 1..Len(cleaned_df.rows) :
        /\ _clean_entity_name(cleaned_df.rows[k].head) = cleaned_df.rows[k].head
        /\ _clean_entity_name(cleaned_df.rows[k].tail) = cleaned_df.rows[k].tail

Materialized(k) ==
    /\ cleaned_df.rows[k].head \in NodeNames(graph)
    /\ cleaned_df.rows[k].tail \in NodeNames(graph)
    /\ RowKey(cleaned_df.rows[k]) \in EdgeKeys(graph)

\* C28: when run_pipeline returns True, every row of the cleaned table is
\* in the graph.
C28_SuccessImpliesMaterialized ==
    run.result = "True" => \A k \in 1..Len(cleaned_df.rows) : Materialized(k)

\* run_pipeline never returns True: get_graph_stats raises after every
\* build_graph that returned
PipelineNeverReturnsTrue == run.result # "True"

\* build_graph returned, a batch of it had failed, and run_pipeline went on
\* to the statistics with a row of the cleaned table missing in the graph
UnnoticedFailedBatch ==
    /\ stage = "stats"
    /\ build_failed # {}
    /\ \E k \in 1..Len(cleaned_df.rows) : ~Materialized(k)
====
